---- MODULE Spec2Model ----
(***************************************************************************)
(* Model of the supervised-resource core of the LLM server:                *)
(*   - ServerHealth          (src/src/llm_server/core/health_monitor.py)   *)
(*   - SafeLlamaServer       (src/src/llm_server/core/model_manager_safe.py)*)
(*   - LlamaServer           (src/src/llm_server/core/model_manager.py)    *)
(*   - /validate routes and the LearningSystem decision store              *)
(*     (src/llm-server-production.py, src/src/llm_server/api/routes_safe.py)*)
(* Each component has its own variables and its own specification; a       *)
(* specification leaves the variables of the other components unchanged.   *)
(***************************************************************************)
EXTENDS Integers, Sequences, FiniteSets, TLC

None == "None"

\* ---- state of ServerHealth ----
VARIABLES
    now,                 \* time.time(), in seconds
    consecutive_errors,  \* ServerHealth.consecutive_errors
    recovery_attempts,   \* ServerHealth.recovery_attempts
    recent_requests,     \* ServerHealth.recent_requests: [timestamp, success]
    recent_errors,       \* ServerHealth.recent_errors: [timestamp, error]
    last_heartbeat,      \* ServerHealth.last_heartbeat
    history,             \* history variable: every record_request call, in order
    error_history,       \* history variable: every recorded error, in order
    auto_triggers,       \* history variable: trigger_recovery calls made by record_request
    trigger_calls,       \* history variable: all trigger_recovery calls
    last_recovery_ret    \* history variable: value returned by the last trigger_recovery

varsHealth == <<now, consecutive_errors, recovery_attempts, recent_requests,
                recent_errors, last_heartbeat, history, error_history,
                auto_triggers, trigger_calls, last_recovery_ret>>

\* ---- state of SafeLlamaServer and of the request threads of create_app_safe ----
VARIABLES
    llm,             \* SafeLlamaServer.llm: NoEngine or the engine [id, path, probed];
                     \* probed is a history field: the engine has passed a probe
    model_loaded,    \* SafeLlamaServer.model_loaded
    request_count,   \* SafeLlamaServer.request_count
    lock,            \* owner of SafeLlamaServer._lock, or None
    shutdown_flag,   \* SafeLlamaServer._shutdown_flag
    workers,         \* the load threads started so far: [owner, path, state]
    pc,              \* position of each request thread
    stack,           \* continuation labels of the calls in progress, innermost first
    retv,            \* value returned (or exception raised) by the last call
    arg,             \* arguments and locals of the current handler
    resp,            \* the response or call result each thread is sending
    rr_calls,        \* history variable: record_request calls of the current handler
    ops_started      \* history variable: handlers started so far

varsSafe == <<llm, model_loaded, request_count, lock, shutdown_flag, workers,
              pc, stack, retv, arg, resp, rr_calls, ops_started>>

\* ---- state of LlamaServer and of its one caller ----
VARIABLES
    ls_pc,            \* position of the caller inside LlamaServer.load_model
    ls_llm,           \* LlamaServer.llm is not None
    ls_model_loaded,  \* LlamaServer.model_loaded
    ls_args,          \* model_path, retry_count and max_retries of the innermost call
    ls_result,        \* value returned by the outermost load_model call
    construct_calls,  \* history variable: Llama(...) invocations of the current call
    attempts,         \* history variable: outcome of each attempt of the current call
    sleeps,           \* history variable: the delays slept by the current call
    already_working,  \* history variable: the call found a loaded, working model
    ls_calls          \* history variable: outermost load_model calls so far

varsLlama == <<ls_pc, ls_llm, ls_model_loaded, ls_args, ls_result, construct_calls,
               attempts, sleeps, already_working, ls_calls>>

\* ---- state of ProductionLLMServerV2 and of its LearningSystem ----
VARIABLES
    models,                 \* ProductionLLMServerV2.models: names of the cached engines
    current_model_config,   \* ProductionLLMServerV2.current_model_config (its name)
    prod_request_count,     \* ProductionLLMServerV2.request_count
    validation_decisions,   \* rows of the table validation_decisions, oldest first
    prod_request,           \* the body of the last /validate request
    prod_response,          \* the response to the last /validate request
    model_selector,         \* ProductionLLMServerV2.model_selector: the loaded configuration
    prod_previous           \* history variable: the response to the request before the
                            \* last one, if the last request repeated that request

varsProd == <<models, current_model_config, prod_request_count, validation_decisions,
              prod_request, prod_response, model_selector, prod_previous>>

\* ---- a call of ProductionLLMServerV2.select_model_for_request ----
VARIABLES
    selection        \* the last call: its configuration, arguments, environment, result

varsSelect == <<selection>>

\* ---- a call of LearningSystem.find_similar_decision ----
VARIABLES
    lookup           \* the last call: the table it ran on, its arguments, its result

varsFind == <<lookup>>

\* ---- concurrent /validate requests of ProductionLLMServerV2 and the store ----
VARIABLES
    store_rows,           \* rows of the table validation_decisions, in rowid order
    store_request_count,  \* ProductionLLMServerV2.request_count
    store_clock,          \* time.time(), in whole seconds
    store_pc,             \* position of each request thread in validate()
    store_local,          \* the locals of each request thread
    store_calls,          \* history variable: store_decision calls that succeeded
    store_started         \* history variable: requests started so far

varsStore == <<store_rows, store_request_count, store_clock, store_pc, store_local,
               store_calls, store_started>>

\* ---- a call of SafeLlamaServer._check_model_integrity ----
VARIABLES
    integrity_check  \* the last call: the server and the file it ran on, its result

varsIntegrity == <<integrity_check>>

\* ---- the classification of one answer by /validate ----
VARIABLES
    classification   \* the last answer classified: text, model name, result

varsClassify == <<classification>>

\* The variables a component's actions leave unchanged.
OtherThanHealth ==
    <<varsSafe, varsLlama, varsProd, varsSelect, varsFind, varsStore, varsIntegrity, varsClassify>>

OtherThanSafe ==
    <<varsLlama, varsProd, varsSelect, varsFind, varsStore, varsIntegrity, varsClassify>>

OtherThanLlama ==
    <<varsHealth, varsSafe, varsProd, varsSelect, varsFind, varsStore, varsIntegrity, varsClassify>>

OtherThanProd ==
    <<varsHealth, varsSafe, varsLlama, varsSelect, varsFind, varsStore, varsIntegrity, varsClassify>>

OtherThanSelect ==
    <<varsHealth, varsSafe, varsLlama, varsProd, varsFind, varsStore, varsIntegrity, varsClassify>>

OtherThanFind ==
    <<varsHealth, varsSafe, varsLlama, varsProd, varsSelect, varsStore, varsIntegrity, varsClassify>>

OtherThanStore ==
    <<varsHealth, varsSafe, varsLlama, varsProd, varsSelect, varsFind, varsIntegrity, varsClassify>>

OtherThanIntegrity ==
    <<varsHealth, varsSafe, varsLlama, varsProd, varsSelect, varsFind, varsStore, varsClassify>>

OtherThanClassify ==
    <<varsHealth, varsSafe, varsLlama, varsProd, varsSelect, varsFind, varsStore, varsIntegrity>>

(***************************************************************************)
(* ServerHealth                                                            *)
(***************************************************************************)
\* Program constants of ServerHealth.
max_consecutive_errors == 5
max_recovery_attempts == 3
MaxRecentRequests == 100
MaxRecentErrors == 50
RecentWindowSeconds == 300
DegradedThreshold == 3
\* error_threshold_rate = 0.1, kept as the fraction 1/10
error_threshold_num == 1
error_threshold_den == 10

\* Bounds of the health specifications.
MaxRequests == 10        \* record_request calls in a run of SpecHealth
MaxManualTriggers == 2   \* direct trigger_recovery calls in a run of SpecHealth
TickStep == 300          \* seconds added by one clock step
MaxTicks == 1            \* clock steps in a run of SpecHealth
MaxLongRequests == 151   \* record_request calls in a run of SpecHealthLong
MaxLongSuccesses == 1    \* successful requests in a run of SpecHealthLong
ErrorMsgs == {"err"}

\* Mutation of AppendEvict: the newest record is dropped instead of the oldest.
AppendEvict_DropNewest(list, rec, cap) ==
    IF Len(list) >= cap THEN list ELSE Append(list, rec)

\* list.append(rec) followed by "if len(list) > cap: list.pop(0)"
AppendEvict(list, rec, cap) ==
    LET appended == Append(list, rec)
    IN  IF Len(appended) > cap THEN Tail(appended) ELSE appended

\* Mutation of NeedsRecovery: the threshold is compared with > instead of >=.
NeedsRecovery_Strict(ce) == ce > max_consecutive_errors

\* "if self.consecutive_errors >= self.max_consecutive_errors" in record_request
NeedsRecovery(ce) == ce >= max_consecutive_errors

\* Mutation of trigger_recovery: recovery is given up one attempt early.
trigger_recovery_GivesUpEarly(ra, ce) ==
    IF ra >= max_recovery_attempts - 1
    THEN [recovery_attempts |-> ra, consecutive_errors |-> ce, ret |-> FALSE]
    ELSE [recovery_attempts |-> ra + 1, consecutive_errors |-> 0, ret |-> TRUE]

\* Mutation of trigger_recovery: one attempt more than the maximum is allowed.
trigger_recovery_OneMore(ra, ce) ==
    IF ra > max_recovery_attempts
    THEN [recovery_attempts |-> ra, consecutive_errors |-> ce, ret |-> FALSE]
    ELSE [recovery_attempts |-> ra + 1, consecutive_errors |-> 0, ret |-> TRUE]

\* Mutation of trigger_recovery: the consecutive-error counter is not reset.
trigger_recovery_NoReset(ra, ce) ==
    IF ra >= max_recovery_attempts
    THEN [recovery_attempts |-> ra, consecutive_errors |-> ce, ret |-> FALSE]
    ELSE [recovery_attempts |-> ra + 1, consecutive_errors |-> ce, ret |-> TRUE]

\* trigger_recovery: the new counters and the returned value.  gc.collect()
\* does not raise, so the except branch is not taken.
trigger_recovery(ra, ce) ==
    IF ra >= max_recovery_attempts
    THEN [recovery_attempts |-> ra, consecutive_errors |-> ce, ret |-> FALSE]
    ELSE [recovery_attempts |-> ra + 1, consecutive_errors |-> 0, ret |-> TRUE]

\* record_request(success, error_msg) executed at time current_time.
record_request(success, error_msg, current_time) ==
    LET req == [timestamp |-> current_time, success |-> success]
        err == [timestamp |-> current_time, error |-> error_msg]
    IN
    /\ now' = current_time
    /\ recent_requests' = AppendEvict(recent_requests, req, MaxRecentRequests)
    /\ history' = Append(history, req)
    /\ IF ~success
       THEN /\ recent_errors' = AppendEvict(recent_errors, err, MaxRecentErrors)
            /\ error_history' = Append(error_history, err)
            /\ IF NeedsRecovery(consecutive_errors + 1)
               THEN LET r == trigger_recovery(recovery_attempts, consecutive_errors + 1)
                    IN  /\ consecutive_errors' = r.consecutive_errors
                        /\ recovery_attempts' = r.recovery_attempts
                        /\ last_recovery_ret' = r.ret
                        /\ auto_triggers' = auto_triggers + 1
                        /\ trigger_calls' = trigger_calls + 1
               ELSE /\ consecutive_errors' = consecutive_errors + 1
                    /\ UNCHANGED <<recovery_attempts, last_recovery_ret,
                                   auto_triggers, trigger_calls>>
       ELSE /\ consecutive_errors' = 0
            /\ UNCHANGED <<recent_errors, error_history, recovery_attempts,
                           last_recovery_ret, auto_triggers, trigger_calls>>
    /\ last_heartbeat' = current_time

\* The requests of the window that are newer than the 5-minute cutoff.
RecentReqs(t) ==
    SelectSeq(recent_requests, LAMBDA r : r.timestamp > t - RecentWindowSeconds)

\* error_rate as the fraction <<failures, total>>; 0.0 is <<0, 1>>.
ErrorRate(t) ==
    LET recent_reqs == RecentReqs(t)
    IN  IF Len(recent_reqs) > 0
        THEN <<Len(SelectSeq(recent_reqs, LAMBDA r : ~r.success)), Len(recent_reqs)>>
        ELSE <<0, 1>>

\* Mutation of StatusOf: past recoveries are not reported.
StatusOf_IgnoresRecovery(ce, rate, ra) ==
    IF ce >= DegradedThreshold THEN "degraded"
    ELSE IF rate[1] * error_threshold_den > error_threshold_num * rate[2] THEN "warning"
    ELSE "healthy"

\* Mutation of StatusOf: the recovery count is consulted before the error rate.
StatusOf_RecoveringFirst(ce, rate, ra) ==
    IF ce >= DegradedThreshold THEN "degraded"
    ELSE IF ra > 0 THEN "recovering"
    ELSE IF rate[1] * error_threshold_den > error_threshold_num * rate[2] THEN "warning"
    ELSE "healthy"

\* status as get_health_status derives it from the counters and the rate <<f, n>>
StatusOf(ce, rate, ra) ==
    IF ce >= DegradedThreshold THEN "degraded"
    ELSE IF rate[1] * error_threshold_den > error_threshold_num * rate[2] THEN "warning"
    ELSE IF ra > 0 THEN "recovering"
    ELSE "healthy"

\* get_health_status() called at time t.
get_health_status(t) ==
    [status |-> StatusOf(consecutive_errors, ErrorRate(t), recovery_attempts),
     uptime_seconds |-> t,
     consecutive_errors |-> consecutive_errors,
     error_rate_5min |-> ErrorRate(t),
     recovery_attempts |-> recovery_attempts,
     total_requests |-> Len(recent_requests),
     recent_errors |-> Len(recent_errors),
     last_heartbeat |-> last_heartbeat]

InitHealth ==
    /\ now = 0
    /\ consecutive_errors = 0
    /\ recovery_attempts = 0
    /\ recent_requests = <<>>
    /\ recent_errors = <<>>
    /\ last_heartbeat = 0
    /\ history = <<>>
    /\ error_history = <<>>
    /\ auto_triggers = 0
    /\ trigger_calls = 0
    /\ last_recovery_ret = None

\* A request is recorded at the current time.
RecordRequest ==
    /\ Len(history) < MaxRequests
    /\ \E success \in BOOLEAN :
          IF success
          THEN record_request(TRUE, None, now)
          ELSE \E e \in ErrorMsgs : record_request(FALSE, e, now)
    /\ UNCHANGED OtherThanHealth

\* trigger_recovery() called directly.
TriggerRecovery ==
    /\ trigger_calls - auto_triggers < MaxManualTriggers
    /\ LET r == trigger_recovery(recovery_attempts, consecutive_errors)
       IN  /\ consecutive_errors' = r.consecutive_errors
           /\ recovery_attempts' = r.recovery_attempts
           /\ last_recovery_ret' = r.ret
    /\ trigger_calls' = trigger_calls + 1
    /\ UNCHANGED <<now, recent_requests, recent_errors, last_heartbeat, history,
                   error_history, auto_triggers>>
    /\ UNCHANGED OtherThanHealth

\* The clock advances.
Tick ==
    /\ now + TickStep <= MaxTicks * TickStep
    /\ now' = now + TickStep
    /\ UNCHANGED <<consecutive_errors, recovery_attempts, recent_requests,
                   recent_errors, last_heartbeat, history, error_history,
                   auto_triggers, trigger_calls, last_recovery_ret>>
    /\ UNCHANGED OtherThanHealth

\* A long run: one second passes, then a request is recorded; at most
\* MaxLongSuccesses of the requests succeed.
Successes == Len(SelectSeq(history, LAMBDA r : r.success))

RecordRequestLong ==
    /\ Len(history) < MaxLongRequests
    /\ \E success \in BOOLEAN :
          IF success
          THEN Successes < MaxLongSuccesses /\ record_request(TRUE, None, now + 1)
          ELSE \E e \in ErrorMsgs : record_request(FALSE, e, now + 1)
    /\ UNCHANGED OtherThanHealth


(***************************************************************************)
(* SafeLlamaServer and the routes of create_app_safe                       *)
(*                                                                         *)
(* Request threads run handlers step by step.  A call pushes the label of  *)
(* its continuation on the thread's stack; a return leaves the returned    *)
(* value in retv and takes the thread to that continuation.  self._lock is *)
(* a non-reentrant threading.Lock: acquiring waits until no thread owns    *)
(* it, also when the owner is the acquiring thread itself.                 *)
(***************************************************************************)
SafeThreads == {"t1", "t2"}

\* Bounds of SpecSafe.
MaxOps == 3              \* handlers started in a run of SpecSafe

\* Program constants of SafeLlamaServer.
MinModelBytes == 104857600      \* min_size = 100 * 1024 * 1024
DefaultMaxRetries == 2

\* The artifacts on disk: path -> [exists, size in bytes, first bytes].
SafePaths == {"a.gguf", "b.gguf", "tiny.gguf", "bad.gguf", "missing.gguf"}

\* The magic bytes b'GGUF', and a path with no file behind it.
GGUF == <<"G", "G", "U", "F">>

NoFile == [exists |-> FALSE, size |-> 0, header |-> <<>>]

\* header.startswith(prefix)
StartsWith(header, prefix) ==
    /\ Len(header) >= Len(prefix)
    /\ SubSeq(header, 1, Len(prefix)) = prefix

\* Failures of the operating system during a check: none, stat() raises,
\* open() raises.
IoOutcomes == {"none", "stat_raises", "open_raises"}

\* Mutation of IntegrityVerdictOf: the size is taken before the path is
\* tested for existence, and stat() of a missing path raises.
IntegrityVerdictOf_SizeFirst(f, io) ==
    IF ~f.exists \/ io = "stat_raises" THEN "Error"
    ELSE IF f.size < MinModelBytes THEN "TooSmall"
    ELSE IF io = "open_raises" THEN "Error"
    ELSE IF ~StartsWith(f.header, GGUF) THEN "BadFormat"
    ELSE "ok"

\* _check_model_integrity on the file f: "ok" or the first check that
\* rejects it; "Error" when a call of the operating system raised.
IntegrityVerdictOf(f, io) ==
    IF ~f.exists THEN "NotFound"
    ELSE IF io = "stat_raises" THEN "Error"
    ELSE IF f.size < MinModelBytes THEN "TooSmall"
    ELSE IF io = "open_raises" THEN "Error"
    ELSE IF ~StartsWith(f.header, GGUF) THEN "BadFormat"
    ELSE "ok"

ModelFile(path) ==
    CASE path = "a.gguf"    -> [exists |-> TRUE, size |-> 1073741824, header |-> GGUF]
      [] path = "b.gguf"    -> [exists |-> TRUE, size |-> 536870912, header |-> GGUF]
      [] path = "tiny.gguf" -> [exists |-> TRUE, size |-> 10, header |-> <<"0", "0", "0", "0">>]
      [] path = "bad.gguf"  -> [exists |-> TRUE, size |-> 536870912,
                                header |-> <<"0", "0", "0", "0">>]
      [] OTHER              -> NoFile

\* _check_model_integrity: "ok" or the first check that rejects the file.
IntegrityVerdict(path) == IntegrityVerdictOf(ModelFile(path), "none")

check_model_integrity(path) == IntegrityVerdict(path) = "ok"

\* self.llm is None
NoEngine == [id |-> 0, path |-> None, probed |-> FALSE]

\* No response has been produced yet.
NoResponse ==
    [thread |-> None, route |-> None, code |-> 0, has_match |-> FALSE, match |-> FALSE,
     confidence |-> 0, value |-> None, record_request_calls |-> 0]

Response(route, code, has_match, match, confidence) ==
    [thread |-> None, route |-> route, code |-> code, has_match |-> has_match,
     match |-> match, confidence |-> confidence, value |-> None,
     record_request_calls |-> 0]

\* The result of a direct call of a server method.
Result(method, value) ==
    [thread |-> None, route |-> method, code |-> 0, has_match |-> FALSE,
     match |-> FALSE, confidence |-> 0, value |-> value, record_request_calls |-> 0]

NoArg ==
    [op |-> None, path |-> None, retry_count |-> 0, max_retries |-> 0, worker |-> 0,
     csv_value |-> <<>>, web_value |-> <<>>, status |-> None, model_loaded |-> FALSE,
     model_integrity |-> FALSE, self_test_passed |-> FALSE]

InitSafe ==
    /\ llm = NoEngine
    /\ model_loaded = FALSE
    /\ request_count = 0
    /\ lock = None
    /\ shutdown_flag = FALSE
    /\ workers = <<>>
    /\ pc = [t \in SafeThreads |-> "idle"]
    /\ stack = [t \in SafeThreads |-> <<>>]
    /\ retv = [t \in SafeThreads |-> None]
    /\ arg = [t \in SafeThreads |-> NoArg]
    /\ resp = [t \in SafeThreads |-> NoResponse]
    /\ rr_calls = [t \in SafeThreads |-> 0]
    /\ ops_started = 0

\* ---- call and return plumbing ----
Goto(t, label) == pc' = [pc EXCEPT ![t] = label]

\* Thread t calls the routine entered at label entry and continues at cont.
Call(t, entry, cont) ==
    /\ pc' = [pc EXCEPT ![t] = entry]
    /\ stack' = [stack EXCEPT ![t] = <<cont>> \o @]

\* Thread t returns value v from the routine it is in.
Ret(t, v) ==
    /\ pc' = [pc EXCEPT ![t] = Head(stack[t])]
    /\ stack' = [stack EXCEPT ![t] = Tail(@)]
    /\ retv' = [retv EXCEPT ![t] = v]

\* Mutation of LockFree: the lock is taken without waiting for its owner.
LockFree_NoWait == TRUE

\* Mutation of IsShutdown: the shutdown flag is not consulted.
IsShutdown_Ignored(flag) == FALSE

\* self._shutdown_flag.is_set()
IsShutdown(flag) == flag

\* "with self._lock:" can be entered only when no thread owns the lock.
LockFree == lock = None

\* A handler starts on an idle thread.
Begin(t, op) ==
    /\ pc[t] = "idle"
    /\ ops_started < MaxOps
    /\ ops_started' = ops_started + 1

\* A handler ends: its response goes out and its locals are gone.
Finish(t, response) ==
    /\ pc' = [pc EXCEPT ![t] = "responded"]
    /\ resp' = [resp EXCEPT ![t] = [response EXCEPT !.thread = t,
                                       !.record_request_calls = rr_calls[t]]]
    /\ arg' = [arg EXCEPT ![t] = NoArg]
    /\ retv' = [retv EXCEPT ![t] = None]
    /\ rr_calls' = [rr_calls EXCEPT ![t] = 0]

\* ---- SafeLlamaServer.load_model ----
\* A direct call load_model(path, 0, max_retries), as main() makes at startup.
CallLoadModel(t) ==
    /\ Begin(t, "load_model")
    /\ \E path \in SafePaths, mr \in {1, DefaultMaxRetries} :
          arg' = [arg EXCEPT ![t] = [NoArg EXCEPT !.op = "load_model", !.path = path,
                                                   !.max_retries = mr]]
    /\ Call(t, "lm_acquire", "done")
    /\ UNCHANGED <<llm, model_loaded, request_count, lock, shutdown_flag, workers,
                   retv, resp, rr_calls>>
    /\ UNCHANGED varsHealth
    /\ UNCHANGED OtherThanSafe

\* "with self._lock:" of load_model
LoadAcquire(t) ==
    /\ pc[t] = "lm_acquire"
    /\ LockFree
    /\ lock' = t
    /\ Goto(t, "lm_check")
    /\ UNCHANGED <<llm, model_loaded, request_count, shutdown_flag, workers,
                   stack, retv, arg, resp, rr_calls, ops_started>>
    /\ UNCHANGED varsHealth
    /\ UNCHANGED OtherThanSafe

\* The early returns of load_model, then the start of the load thread.
\* mem_ok is the outcome of _check_memory_usage; start_ok is false when
\* threading.Thread.start() raises.
LoadCheck(t) ==
    /\ pc[t] = "lm_check"
    /\ \E mem_ok \in BOOLEAN, start_ok \in BOOLEAN :
          IF IsShutdown(shutdown_flag)
          THEN /\ lock' = None /\ Ret(t, "False") /\ UNCHANGED <<workers, arg>>
          ELSE IF model_loaded
          THEN /\ lock' = None /\ Ret(t, "True") /\ UNCHANGED <<workers, arg>>
          ELSE IF arg[t].retry_count >= arg[t].max_retries
          THEN /\ lock' = None /\ Ret(t, "False") /\ UNCHANGED <<workers, arg>>
          ELSE IF ~check_model_integrity(arg[t].path)
          THEN /\ lock' = None /\ Ret(t, "False") /\ UNCHANGED <<workers, arg>>
          ELSE IF ~mem_ok
          THEN /\ lock' = None /\ Ret(t, "False") /\ UNCHANGED <<workers, arg>>
          ELSE IF ~start_ok
          THEN /\ Goto(t, "lm_except") /\ UNCHANGED <<lock, retv, stack, workers, arg>>
          ELSE /\ workers' = Append(workers, [owner |-> t, path |-> arg[t].path,
                                              state |-> "running"])
               /\ arg' = [arg EXCEPT ![t].worker = Len(workers) + 1]
               /\ Goto(t, "lm_join")
               /\ UNCHANGED <<lock, retv, stack>>
    /\ UNCHANGED <<llm, model_loaded, request_count, shutdown_flag, resp,
                   rr_calls, ops_started>>
    /\ UNCHANGED varsHealth
    /\ UNCHANGED OtherThanSafe

\* load_with_timeout running in the load thread: Llama(...) returns and the
\* thread stores the engine in self.llm, or Llama(...) raises.
WorkerFinish(w) ==
    /\ w \in 1..Len(workers)
    /\ workers[w].state = "running"
    /\ \E ok \in BOOLEAN :
          IF ok
          THEN /\ llm' = [id |-> w, path |-> workers[w].path, probed |-> FALSE]
               /\ workers' = [workers EXCEPT ![w].state = "done"]
          ELSE /\ workers' = [workers EXCEPT ![w].state = "failed"]
               /\ UNCHANGED llm
    /\ UNCHANGED <<model_loaded, request_count, lock, shutdown_flag, pc, stack,
                   retv, arg, resp, rr_calls, ops_started>>
    /\ UNCHANGED varsHealth
    /\ UNCHANGED OtherThanSafe

\* load_thread.join(timeout=60) returns, because the thread ended or because
\* 60 seconds passed, and the result is inspected.
LoadJoin(t) ==
    /\ pc[t] = "lm_join"
    /\ \E timed_out \in BOOLEAN :
          LET alive == workers[arg[t].worker].state = "running"
          IN  /\ timed_out = alive
              /\ IF ~alive /\ llm # NoEngine
                 THEN /\ model_loaded' = TRUE
                      /\ Call(t, "vi_begin", "lm_verified")
                 ELSE /\ Call(t, "um_acquire", "lm_unloaded")
                      /\ UNCHANGED model_loaded
    /\ UNCHANGED <<llm, request_count, lock, shutdown_flag, workers, retv, arg,
                   resp, rr_calls, ops_started>>
    /\ UNCHANGED varsHealth
    /\ UNCHANGED OtherThanSafe

\* After the self-test of a freshly built engine.
LoadVerified(t) ==
    /\ pc[t] = "lm_verified"
    /\ IF retv[t] = "True"
       THEN /\ lock' = None
            /\ Ret(t, "True")
       ELSE /\ Call(t, "um_acquire", "lm_unloaded")
            /\ UNCHANGED <<lock, retv>>
    /\ UNCHANGED <<llm, model_loaded, request_count, shutdown_flag, workers, arg,
                   resp, rr_calls, ops_started>>
    /\ UNCHANGED varsHealth
    /\ UNCHANGED OtherThanSafe

\* The except branch of load_model: unload_model() is called first.
LoadExcept(t) ==
    /\ pc[t] = "lm_except"
    /\ Call(t, "um_acquire", "lm_unloaded_except")
    /\ UNCHANGED <<llm, model_loaded, request_count, lock, shutdown_flag, workers,
                   retv, arg, resp, rr_calls, ops_started>>
    /\ UNCHANGED varsHealth
    /\ UNCHANGED OtherThanSafe

\* ---- SafeLlamaServer.unload_model ----
CallUnloadModel(t) ==
    /\ Begin(t, "unload_model")
    /\ arg' = [arg EXCEPT ![t] = [NoArg EXCEPT !.op = "unload_model"]]
    /\ Call(t, "um_acquire", "done")
    /\ UNCHANGED <<llm, model_loaded, request_count, lock, shutdown_flag, workers,
                   retv, resp, rr_calls>>
    /\ UNCHANGED varsHealth
    /\ UNCHANGED OtherThanSafe

\* "with self._lock:" of unload_model
UnloadAcquire(t) ==
    /\ pc[t] = "um_acquire"
    /\ LockFree
    /\ lock' = t
    /\ Goto(t, "um_body")
    /\ UNCHANGED <<llm, model_loaded, request_count, shutdown_flag, workers,
                   stack, retv, arg, resp, rr_calls, ops_started>>
    /\ UNCHANGED varsHealth
    /\ UNCHANGED OtherThanSafe

UnloadBody(t) ==
    /\ pc[t] = "um_body"
    /\ IF llm # NoEngine
       THEN llm' = NoEngine /\ model_loaded' = FALSE
       ELSE UNCHANGED <<llm, model_loaded>>
    /\ lock' = None
    /\ Ret(t, "None")
    /\ UNCHANGED <<request_count, shutdown_flag, workers, arg, resp,
                   rr_calls, ops_started>>
    /\ UNCHANGED varsHealth
    /\ UNCHANGED OtherThanSafe

\* ---- SafeLlamaServer.verify_model_integrity ----
\* The guard of verify_model_integrity and the start of the probe call.
VerifyBegin(t) ==
    /\ pc[t] = "vi_begin"
    /\ IF ~model_loaded \/ llm = NoEngine
       THEN Ret(t, "False")
       ELSE Goto(t, "vi_end") /\ UNCHANGED <<retv, stack>>
    /\ UNCHANGED <<llm, model_loaded, request_count, lock, shutdown_flag, workers,
                   arg, resp, rr_calls, ops_started>>
    /\ UNCHANGED varsHealth
    /\ UNCHANGED OtherThanSafe

\* self.llm("Hi", max_tokens=1) answers, or raises or answers without choices.
VerifyEnd(t) ==
    /\ pc[t] = "vi_end"
    /\ \E ok \in BOOLEAN :
          /\ Ret(t, IF ok THEN "True" ELSE "False")
          /\ llm' = IF ok /\ llm # NoEngine THEN [llm EXCEPT !.probed = TRUE] ELSE llm
          /\ arg' = [arg EXCEPT ![t].self_test_passed = @ \/ ok]
    /\ UNCHANGED <<model_loaded, request_count, lock, shutdown_flag, workers,
                   resp, rr_calls, ops_started>>
    /\ UNCHANGED varsHealth
    /\ UNCHANGED OtherThanSafe

\* ---- SafeLlamaServer.generate ----
\* "with self._lock:" of generate
GenerateAcquire(t) ==
    /\ pc[t] = "gen_acquire"
    /\ LockFree
    /\ lock' = t
    /\ Goto(t, "gen_check")
    /\ UNCHANGED <<llm, model_loaded, request_count, shutdown_flag, workers,
                   stack, retv, arg, resp, rr_calls, ops_started>>
    /\ UNCHANGED varsHealth
    /\ UNCHANGED OtherThanSafe

\* The guards of generate; the prompt built by the routes is never empty.
GenerateCheck(t) ==
    /\ pc[t] = "gen_check"
    /\ IF IsShutdown(shutdown_flag) \/ ~model_loaded \/ llm = NoEngine
       THEN /\ lock' = None
            /\ Ret(t, "RuntimeError")
            /\ UNCHANGED request_count
       ELSE /\ request_count' = request_count + 1
            /\ Call(t, "vi_begin", "gen_verified")
            /\ UNCHANGED <<lock, retv>>
    /\ UNCHANGED <<llm, model_loaded, shutdown_flag, workers, arg, resp, rr_calls,
                   ops_started>>
    /\ UNCHANGED varsHealth
    /\ UNCHANGED OtherThanSafe

\* After the pre-generation probe: a failed probe raises.
GenerateVerified(t) ==
    /\ pc[t] = "gen_verified"
    /\ IF retv[t] = "True"
       THEN Goto(t, "gen_call") /\ UNCHANGED <<lock, retv, stack>>
       ELSE lock' = None /\ Ret(t, "RuntimeError")
    /\ UNCHANGED <<llm, model_loaded, request_count, shutdown_flag, workers,
                   arg, resp, rr_calls, ops_started>>
    /\ UNCHANGED varsHealth
    /\ UNCHANGED OtherThanSafe

\* self.llm(prompt, ...) answers with choices, or raises or answers without.
GenerateCall(t) ==
    /\ pc[t] = "gen_call"
    /\ lock' = None
    /\ \E ok \in BOOLEAN : Ret(t, IF ok THEN "result" ELSE "RuntimeError")
    /\ UNCHANGED <<llm, model_loaded, request_count, shutdown_flag, workers,
                   arg, resp, rr_calls, ops_started>>
    /\ UNCHANGED varsHealth
    /\ UNCHANGED OtherThanSafe

\* ---- SafeLlamaServer.shutdown ----
Shutdown(t) ==
    /\ Begin(t, "shutdown")
    /\ arg' = [arg EXCEPT ![t] = [NoArg EXCEPT !.op = "shutdown"]]
    /\ shutdown_flag' = TRUE
    /\ Call(t, "um_acquire", "sd_unloaded")
    /\ UNCHANGED <<llm, model_loaded, request_count, lock, workers, retv, resp,
                   rr_calls>>
    /\ UNCHANGED varsHealth
    /\ UNCHANGED OtherThanSafe

\* ---- after a call returned ----
\* The end of a direct call and of shutdown(), and the continuations of
\* load_model after its unload_model() calls and after its recursive call.
SafeReturn(t) ==
    /\ pc[t] \in {"done", "sd_unloaded", "lm_unloaded", "lm_unloaded_except", "lm_retried"}
    /\ CASE pc[t] = "done" ->
               \* a direct call is over
               /\ Finish(t, Result(arg[t].op, retv[t]))
               /\ UNCHANGED <<lock, stack>>
          [] pc[t] = "sd_unloaded" ->
               \* shutdown() returns
               /\ Finish(t, Result("shutdown", "None"))
               /\ UNCHANGED <<lock, stack>>
          [] pc[t] = "lm_unloaded" ->
               \* load_model falls through to "return False" and leaves its with block
               /\ lock' = None
               /\ Ret(t, "False")
               /\ UNCHANGED <<arg, resp, rr_calls>>
          [] pc[t] = "lm_unloaded_except" ->
               IF arg[t].retry_count < arg[t].max_retries - 1
               THEN \* time.sleep(delay); return self.load_model(path, retry_count + 1, ...)
                    /\ arg' = [arg EXCEPT ![t].retry_count = @ + 1]
                    /\ Call(t, "lm_acquire", "lm_retried")
                    /\ UNCHANGED <<lock, retv, resp, rr_calls>>
               ELSE /\ lock' = None
                    /\ Ret(t, "False")
                    /\ UNCHANGED <<arg, resp, rr_calls>>
          [] pc[t] = "lm_retried" ->
               \* the outer load_model returns what the recursive call returned
               /\ lock' = None
               /\ Ret(t, retv[t])
               /\ UNCHANGED <<arg, resp, rr_calls>>
    /\ UNCHANGED <<llm, model_loaded, request_count, shutdown_flag, workers,
                   ops_started>>
    /\ UNCHANGED varsHealth
    /\ UNCHANGED OtherThanSafe

\* The response has been delivered; the thread serves the next request.
HandlerExit(t) ==
    /\ pc[t] = "responded"
    /\ pc' = [pc EXCEPT ![t] = "idle"]
    /\ resp' = [resp EXCEPT ![t] = NoResponse]
    /\ UNCHANGED <<llm, model_loaded, request_count, lock, shutdown_flag, workers,
                   stack, retv, arg, rr_calls, ops_started>>
    /\ UNCHANGED varsHealth
    /\ UNCHANGED OtherThanSafe

\* ---- the routes of create_app_safe ----
\* Strings are sequences of characters; the values a request may carry.
Lower(str) == [i \in 1..Len(str) |-> IF str[i] = "J" THEN "j" ELSE str[i]]

RECURSIVE LStrip(_)
LStrip(str) == IF str # <<>> /\ Head(str) = " " THEN LStrip(Tail(str)) ELSE str

RECURSIVE RStrip(_)
RStrip(str) ==
    IF str # <<>> /\ str[Len(str)] = " " THEN RStrip(SubSeq(str, 1, Len(str) - 1)) ELSE str

Strip(str) == LStrip(RStrip(str))

RemoveSpaces(str) == SelectSeq(str, LAMBDA c : c # " ")

\* Python's "a in b" for strings
IsSubstring(a, b) ==
    \E i \in 0..(Len(b) - Len(a)) : SubSeq(b, i + 1, i + Len(a)) = a

\* <<csv_value, web_value>> pairs: equal after normalization, equal without
\* spaces, one contained in the other, and different.
RequestValues ==
    {<<(<<"J">>), (<<" ", "j">>)>>,
     <<(<<"j", " ", "j">>), (<<"j", "j">>)>>,
     <<(<<"J">>), (<<"j", "j", "j">>)>>,
     <<(<<"j", " ", "j">>), (<<"j", "j", "j">>)>>}

\* The fallback comparison of /validate: <<match, confidence in hundredths>>
FallbackCompare(csv_value, web_value) ==
    LET csv_norm == Strip(Lower(csv_value))
        web_norm == Strip(Lower(web_value))
    IN  IF csv_norm = web_norm THEN <<TRUE, 100>>
        ELSE IF RemoveSpaces(csv_norm) = RemoveSpaces(web_norm) THEN <<TRUE, 90>>
        ELSE IF IsSubstring(csv_norm, web_norm) \/ IsSubstring(web_norm, csv_norm)
             THEN <<TRUE, 70>>
        ELSE <<FALSE, 50>>

\* What the model's text turns out to be: a JSON object with the three keys
\* (confidence in hundredths, possibly outside [0, 1]), a JSON object whose
\* confidence is not a number, or text without a usable JSON object.
ModelOutputs ==
    {[kind |-> "json", match |-> TRUE, confidence |-> 150],
     [kind |-> "json", match |-> TRUE, confidence |-> 90],
     [kind |-> "json", match |-> FALSE, confidence |-> -50]}
    \cup {[kind |-> "json_badtype", match |-> FALSE, confidence |-> 0],
          [kind |-> "nojson", match |-> FALSE, confidence |-> 0]}

Clamp(x, lo, hi) == IF x < lo THEN lo ELSE IF x > hi THEN hi ELSE x

\* POST /load
RouteLoad(t) ==
    /\ Begin(t, "/load")
    /\ \E body \in {"nobody"} \cup SafePaths :
          IF body = "nobody"
          THEN /\ Finish(t, Response("/load", 400, FALSE, FALSE, 0))
               /\ UNCHANGED stack
          ELSE IF ~ModelFile(body).exists
          THEN /\ Finish(t, Response("/load", 404, FALSE, FALSE, 0))
               /\ UNCHANGED stack
          ELSE /\ arg' = [arg EXCEPT ![t] = [NoArg EXCEPT !.op = "/load", !.path = body,
                                                        !.max_retries = DefaultMaxRetries]]
               /\ Call(t, "lm_acquire", "rt_loaded")
               /\ UNCHANGED <<retv, resp, rr_calls>>
    /\ UNCHANGED <<llm, model_loaded, request_count, lock, shutdown_flag, workers>>
    /\ UNCHANGED varsHealth
    /\ UNCHANGED OtherThanSafe

RouteLoaded(t) ==
    /\ pc[t] = "rt_loaded"
    /\ Finish(t, Response("/load", IF retv[t] = "True" THEN 200 ELSE 500, FALSE, FALSE, 0))
    /\ UNCHANGED <<llm, model_loaded, request_count, lock, shutdown_flag, workers,
                   stack, ops_started>>
    /\ UNCHANGED varsHealth
    /\ UNCHANGED OtherThanSafe

\* POST /generate and POST /completion
RouteGenerate(t) ==
    /\ Begin(t, "/generate")
    /\ \E body \in {"nobody", "noprompt", "prompt"} :
          IF body # "prompt"
          THEN /\ Finish(t, Response("/generate", 400, FALSE, FALSE, 0))
               /\ UNCHANGED stack
          ELSE /\ arg' = [arg EXCEPT ![t] = [NoArg EXCEPT !.op = "/generate"]]
               /\ Call(t, "gen_acquire", "rt_generated")
               /\ UNCHANGED <<retv, resp, rr_calls>>
    /\ UNCHANGED <<llm, model_loaded, request_count, lock, shutdown_flag, workers>>
    /\ UNCHANGED varsHealth
    /\ UNCHANGED OtherThanSafe

RouteGenerated(t) ==
    /\ pc[t] = "rt_generated"
    /\ Finish(t, Response("/generate", IF retv[t] = "result" THEN 200 ELSE 500,
                          FALSE, FALSE, 0))
    /\ UNCHANGED <<llm, model_loaded, request_count, lock, shutdown_flag, workers,
                   stack, ops_started>>
    /\ UNCHANGED varsHealth
    /\ UNCHANGED OtherThanSafe

\* POST /validate, up to the call of server.generate
RouteValidate(t) ==
    /\ Begin(t, "/validate")
    /\ \E body \in {"notjson", "empty", "json"} :
          IF body # "json"
          THEN /\ Finish(t, Response("/validate", 400, FALSE, FALSE, 0))
               /\ UNCHANGED stack
          ELSE \E values \in RequestValues :
                  /\ arg' = [arg EXCEPT ![t] = [NoArg EXCEPT !.op = "/validate",
                                                           !.csv_value = values[1],
                                                           !.web_value = values[2]]]
                  /\ Call(t, "gen_acquire", "rt_validated")
                  /\ UNCHANGED <<retv, resp, rr_calls>>
    /\ UNCHANGED <<llm, model_loaded, request_count, lock, shutdown_flag, workers>>
    /\ UNCHANGED varsHealth
    /\ UNCHANGED OtherThanSafe

\* POST /validate, after server.generate returned or raised
RouteValidated(t) ==
    /\ pc[t] = "rt_validated"
    /\ \E out \in ModelOutputs :
          Finish(t,
             IF retv[t] # "result" \/ out.kind = "json_badtype"
             THEN Response("/validate", 500, TRUE, FALSE, 0)
             ELSE IF out.kind = "json"
             THEN Response("/validate", 200, TRUE, out.match, Clamp(out.confidence, 0, 100))
             ELSE LET fb == FallbackCompare(arg[t].csv_value, arg[t].web_value)
                  IN  Response("/validate", 200, TRUE, fb[1], fb[2]))
    /\ UNCHANGED <<llm, model_loaded, request_count, lock, shutdown_flag, workers,
                   stack, ops_started>>
    /\ UNCHANGED varsHealth
    /\ UNCHANGED OtherThanSafe

\* GET /health: get_health_status(), get_status(), then the integrity probe
\* if the model is reported loaded.
RouteHealth(t) ==
    /\ Begin(t, "/health")
    /\ arg' = [arg EXCEPT ![t] = [NoArg EXCEPT !.op = "/health",
                                             !.status = get_health_status(now).status,
                                             !.model_loaded = model_loaded]]
    /\ IF model_loaded
       THEN Call(t, "vi_begin", "rt_health_probed")
       ELSE Goto(t, "rt_health_probed") /\ UNCHANGED stack
    /\ UNCHANGED <<llm, model_loaded, request_count, lock, shutdown_flag, workers,
                   retv, resp, rr_calls>>
    /\ UNCHANGED varsHealth
    /\ UNCHANGED OtherThanSafe

\* GET /health: health_monitor.record_request(success=True), or, when building
\* the health data raised, record_request(success=False, error_msg=str(e))
RouteHealthRecord(t) ==
    /\ pc[t] = "rt_health_probed"
    /\ \E raised \in BOOLEAN :
          /\ record_request(~raised, IF raised THEN "err" ELSE None, now)
          /\ arg' = [arg EXCEPT
                        ![t].model_integrity = (arg[t].model_loaded /\ retv[t] = "True"),
                        ![t].status = IF raised THEN "error" ELSE @]
    /\ rr_calls' = [rr_calls EXCEPT ![t] = @ + 1]
    /\ Goto(t, "rt_health_respond")
    /\ UNCHANGED <<llm, model_loaded, request_count, lock, shutdown_flag, workers,
                   stack, retv, resp, ops_started>>
    /\ UNCHANGED OtherThanSafe

\* GET /health: the response
RouteHealthRespond(t) ==
    /\ pc[t] = "rt_health_respond"
    /\ Finish(t, [Response("/health", IF arg[t].status = "error" THEN 500 ELSE 200,
                            FALSE, FALSE, 0) EXCEPT
                     !.value = <<arg[t].status, arg[t].model_loaded,
                                 arg[t].model_integrity>>])
    /\ UNCHANGED <<llm, model_loaded, request_count, lock, shutdown_flag, workers,
                   stack, ops_started>>
    /\ UNCHANGED varsHealth
    /\ UNCHANGED OtherThanSafe

LoadThreadStep == \E w \in 1..Len(workers) : WorkerFinish(w)

NextSafe ==
    \/ \E t \in SafeThreads :
          \/ CallLoadModel(t) \/ LoadAcquire(t) \/ LoadCheck(t) \/ LoadJoin(t)
          \/ LoadVerified(t) \/ LoadExcept(t)
          \/ CallUnloadModel(t) \/ UnloadAcquire(t) \/ UnloadBody(t)
          \/ VerifyBegin(t) \/ VerifyEnd(t)
          \/ GenerateAcquire(t) \/ GenerateCheck(t) \/ GenerateVerified(t)
          \/ GenerateCall(t)
          \/ Shutdown(t) \/ SafeReturn(t) \/ HandlerExit(t)
          \/ RouteLoad(t) \/ RouteLoaded(t) \/ RouteGenerate(t) \/ RouteGenerated(t)
          \/ RouteValidate(t) \/ RouteValidated(t) \/ RouteHealth(t)
          \/ RouteHealthRecord(t) \/ RouteHealthRespond(t)
    \/ LoadThreadStep

(***************************************************************************)
(* LlamaServer.load_model                                                  *)
(*                                                                         *)
(* One caller; the recursive call is the last thing its caller does, so    *)
(* the innermost call's arguments are all that has to be kept.             *)
(***************************************************************************)
\* Bounds of SpecLlama.
MaxLlamaCalls == 2       \* outermost load_model calls in a run
MaxRetriesArg == 3       \* the largest max_retries a caller passes

LlamaPaths == {"a.gguf", "tiny.gguf", "missing.gguf"}

NoLoadArgs == [model_path |-> None, retry_count |-> 0, max_retries |-> 0]

InitLlama ==
    /\ ls_pc = "idle"
    /\ ls_llm = FALSE
    /\ ls_model_loaded = FALSE
    /\ ls_args = NoLoadArgs
    /\ ls_result = None
    /\ construct_calls = 0
    /\ attempts = <<>>
    /\ sleeps = <<>>
    /\ already_working = FALSE
    /\ ls_calls = 0

\* LlamaServer.verify_model_integrity; probe_ok: the test generation answers
\* with choices
ls_verify_model_integrity(loaded, engine, probe_ok) ==
    IF ~loaded \/ ~engine THEN FALSE ELSE probe_ok

\* Mutation of RetryAgain: the last retry is given up.
RetryAgain_OneLess(retry_count, max_retries) == retry_count < max_retries - 2

\* "if retry_count < max_retries - 1" of the except branch
RetryAgain(retry_count, max_retries) == retry_count < max_retries - 1

\* Mutation of RetryDelay: the same delay before every retry.
RetryDelay_Flat(retry_count) == 2

\* delay = (retry_count + 1) * 2
RetryDelay(retry_count) == (retry_count + 1) * 2

\* A caller calls load_model(model_path, 0, max_retries).
LlamaCallLoadModel ==
    /\ ls_pc \in {"idle", "returned"}
    /\ ls_calls < MaxLlamaCalls
    /\ \E path \in LlamaPaths, mr \in 0..MaxRetriesArg :
          ls_args' = [model_path |-> path, retry_count |-> 0, max_retries |-> mr]
    /\ ls_pc' = "lm_entry"
    /\ ls_result' = None
    /\ construct_calls' = 0
    /\ attempts' = <<>>
    /\ sleeps' = <<>>
    /\ already_working' = FALSE
    /\ ls_calls' = ls_calls + 1
    /\ UNCHANGED <<ls_llm, ls_model_loaded>>
    /\ UNCHANGED OtherThanLlama

\* The statements of load_model before its try block.
LlamaLoadEntry ==
    /\ ls_pc = "lm_entry"
    /\ \E probe_ok \in BOOLEAN :
          IF ls_model_loaded /\ ls_verify_model_integrity(ls_model_loaded, ls_llm, probe_ok)
          THEN /\ ls_pc' = "returned"
               /\ ls_result' = "True"
               /\ already_working' = TRUE
               /\ UNCHANGED <<ls_llm, ls_model_loaded>>
          ELSE /\ IF ls_model_loaded
                  THEN ls_model_loaded' = FALSE /\ ls_llm' = FALSE
                  ELSE UNCHANGED <<ls_llm, ls_model_loaded>>
               /\ IF ls_args.retry_count >= ls_args.max_retries
                  THEN ls_pc' = "returned" /\ ls_result' = "False"
                  ELSE ls_pc' = "lm_try" /\ UNCHANGED ls_result
               /\ UNCHANGED already_working
    /\ UNCHANGED <<ls_args, construct_calls, attempts, sleeps, ls_calls>>
    /\ UNCHANGED OtherThanLlama

\* The try block of load_model and its except branch.  construct_ok: Llama(...)
\* returns an engine; probe_ok: the self-test of the new engine passes.
LlamaLoadTry ==
    /\ ls_pc = "lm_try"
    /\ IF ~ModelFile(ls_args.model_path).exists
       THEN /\ ls_pc' = "returned"
            /\ ls_result' = "False"
            /\ UNCHANGED <<ls_llm, ls_model_loaded, ls_args, construct_calls, attempts,
                           sleeps>>
       ELSE \E construct_ok \in BOOLEAN, probe_ok \in BOOLEAN :
               /\ construct_calls' = construct_calls + 1
               /\ IF construct_ok /\ ls_verify_model_integrity(TRUE, TRUE, probe_ok)
                  THEN /\ ls_llm' = TRUE
                       /\ ls_model_loaded' = TRUE
                       /\ attempts' = Append(attempts, "ok")
                       /\ ls_pc' = "returned"
                       /\ ls_result' = "True"
                       /\ UNCHANGED <<ls_args, sleeps>>
                  ELSE /\ ls_llm' = FALSE
                       /\ ls_model_loaded' = FALSE
                       /\ attempts' = Append(attempts, IF construct_ok THEN "verify_failed"
                                                                        ELSE "raised")
                       /\ IF RetryAgain(ls_args.retry_count, ls_args.max_retries)
                          THEN /\ sleeps' = Append(sleeps, RetryDelay(ls_args.retry_count))
                               /\ ls_args' = [ls_args EXCEPT !.retry_count = @ + 1]
                               /\ ls_pc' = "lm_entry"
                               /\ UNCHANGED ls_result
                          ELSE /\ ls_pc' = "returned"
                               /\ ls_result' = "False"
                               /\ UNCHANGED <<ls_args, sleeps>>
    /\ UNCHANGED <<already_working, ls_calls>>
    /\ UNCHANGED OtherThanLlama

NextLlama == LlamaCallLoadModel \/ LlamaLoadEntry \/ LlamaLoadTry

(***************************************************************************)
(* ProductionLLMServerV2: /validate and the LearningSystem                 *)
(*                                                                         *)
(* Confidences are in hundredths, memory in tenths of a GB.                *)
(***************************************************************************)
\* Bounds of SpecProd.
MaxProdRequests == 2     \* /validate requests in a run

\* Program constants.
PersistFloor == 70            \* "if confidence >= 0.7" before store_decision
similarity_threshold == 95    \* default of find_similar_decision
memory_threshold == 5         \* auto_selection.get('memory_threshold_gb', 0.5)

SUPPORTED_MODELS ==
    <<[name |-> "tinyllama", memory_requirement |-> 15],
      [name |-> "qwen-1.8b", memory_requirement |-> 20],
      [name |-> "gemma-2b", memory_requirement |-> 25],
      [name |-> "phi3-mini", memory_requirement |-> 35]>>

\* The environment of a request: available memory and the model files on disk.
MemoryLevels == {10, 30, 80}

\* ModelSelector.__init__: what load_config finds in llm-production.yaml.
\* The first is the result when the file is absent or unreadable ({}); an
\* absent fallback_order is the empty sequence.
NoFieldTypeMapping == [ft \in {} |-> None]

Configs ==
    {[constructed |-> TRUE, field_type_mapping |-> NoFieldTypeMapping,
      fallback_order |-> <<>>],
     [constructed |-> TRUE,
      field_type_mapping |-> [ft \in {"name", "number"} |->
                                 IF ft = "name" THEN "gemma-2b" ELSE "qwen-1.8b"],
      fallback_order |-> <<"phi3-mini", "gemma-2b", "qwen-1.8b", "tinyllama">>]}

\* The server object has not been constructed yet.
NoModelSelector ==
    [constructed |-> FALSE, field_type_mapping |-> NoFieldTypeMapping,
     fallback_order |-> <<>>]

InstalledSets ==
    {{"tinyllama", "qwen-1.8b", "gemma-2b", "phi3-mini"},
     {"qwen-1.8b", "phi3-mini"},
     {"gemma-2b", "phi3-mini"},
     {"phi3-mini"}}

\* The JSON bodies a client sends.
RequestBodies ==
    {[kind |-> "empty", csv_value |-> <<>>, web_value |-> <<>>, field_type |-> None],
     [kind |-> "json", csv_value |-> <<"J">>, web_value |-> <<"j">>, field_type |-> "name"],
     [kind |-> "json", csv_value |-> <<"j">>, web_value |-> <<"j">>, field_type |-> "name"],
     [kind |-> "json", csv_value |-> <<" ", "j">>, web_value |-> <<"j">>,
      field_type |-> "name"],
     [kind |-> "json", csv_value |-> <<"J">>, web_value |-> <<"j", "j", "j">>,
      field_type |-> "text"]}

NoRequest == [kind |-> None, csv_value |-> <<>>, web_value |-> <<>>, field_type |-> None]

\* The answers of create_completion, upper-cased; "nochoices" is a response
\* without choices and "raised" an exception.
Answers == {"YES", "NO"}

Completions == Answers \cup {"nochoices", "raised"}

\* What the engine does in one request: <<outcome of load_model's
\* construction and self-test, outcome of create_completion>>.
EngineOutcomes ==
    {<<"raised", "YES">>, <<"test_failed", "YES">>}
    \cup {<<"ok", completion>> : completion \in Completions}

\* The environments a request runs in: <<available memory, files on disk>>.
Environments ==
    {<<10, {"tinyllama", "qwen-1.8b", "gemma-2b", "phi3-mini"}>>,
     <<80, {"tinyllama", "qwen-1.8b", "gemma-2b", "phi3-mini"}>>,
     <<30, {"qwen-1.8b", "phi3-mini"}>>,
     <<80, {"gemma-2b", "phi3-mini"}>>}

MatchWords == {"YES", "SIM", "TRUE", "IGUAL"}

ProdResponse(code, match, confidence, from_cache, model_used) ==
    [code |-> code, match |-> match, confidence |-> confidence,
     from_cache |-> from_cache, model_used |-> model_used]

NoProdResponse == ProdResponse(0, FALSE, 0, FALSE, None)

NoDecision == [id |-> 0, timestamp |-> 0, csv_value |-> <<>>, web_value |-> <<>>,
               field_type |-> None, hash_key |-> <<>>, match |-> FALSE, confidence |-> 0,
               model_used |-> None]

InitProd ==
    /\ models = {}
    /\ current_model_config = None
    /\ prod_request_count = 0
    /\ validation_decisions = <<>>
    /\ prod_request = NoRequest
    /\ prod_response = NoProdResponse
    /\ model_selector = NoModelSelector
    /\ prod_previous = NoProdResponse

\* hashlib.md5(f"{csv.lower()}:{web.lower()}:{field_type}"): the key is
\* determined by the lower-cased values and the field type.
HashKey(csv_value, web_value, field_type) ==
    <<Lower(csv_value), Lower(web_value), field_type>>

\* LearningSystem.store_decision: INSERT OR REPLACE by id
store_decision(table, decision) ==
    Append(SelectSeq(table, LAMBDA row : row.id # decision.id), decision)

\* Mutation of FindResults: the oldest of the selected rows is returned.
FindResults_Oldest(table, csv_value, web_value, field_type) ==
    LET key == HashKey(csv_value, web_value, field_type)
        hits == {i \in 1..Len(table) : /\ table[i].hash_key = key
                                       /\ table[i].confidence >= similarity_threshold}
        first == {i \in hits : \A j \in hits : table[j].timestamp >= table[i].timestamp}
    IN  IF hits = {} THEN {NoDecision} ELSE {table[i] : i \in first}

\* "WHERE hash_key = ? AND confidence >= ? ORDER BY timestamp DESC LIMIT 1":
\* the rows fetchone() may return, or {NoDecision} when it returns nothing.
\* Rows with equal timestamps come in an order SQLite leaves open.
FindResults(table, csv_value, web_value, field_type) ==
    LET key == HashKey(csv_value, web_value, field_type)
        hits == {i \in 1..Len(table) : /\ table[i].hash_key = key
                                       /\ table[i].confidence >= similarity_threshold}
        first == {i \in hits : \A j \in hits : table[j].timestamp <= table[i].timestamp}
    IN  IF hits = {} THEN {NoDecision} ELSE {table[i] : i \in first}

\* LearningSystem.find_similar_decision: the newest row with the same key
\* and confidence >= similarity_threshold, or NoDecision
find_similar_decision(table, csv_value, web_value, field_type) ==
    CHOOSE row \in FindResults(table, csv_value, web_value, field_type) : TRUE

\* get_available_models: the names of the supported models that fit in
\* memory and exist on disk, in the order of SUPPORTED_MODELS
get_available_models(memory, installed) ==
    LET fits == SelectSeq(SUPPORTED_MODELS,
                          LAMBDA m : /\ m.memory_requirement <= memory - memory_threshold
                                     /\ m.name \in installed)
    IN  [i \in 1..Len(fits) |-> fits[i].name]

\* The first name of order that is among the available names, or None
RECURSIVE FirstAvailable(_, _)
FirstAvailable(order, available) ==
    IF order = <<>> THEN None
    ELSE IF \E i \in 1..Len(available) : available[i] = Head(order) THEN Head(order)
    ELSE FirstAvailable(Tail(order), available)

\* auto_selection.get('fallback_order', available_models)
FallbackOrder(config, available) ==
    IF config.fallback_order = <<>> THEN available ELSE config.fallback_order

\* Mutation of select_model_for_field_type: the mapping is not consulted.
select_model_for_field_type_FallbackOnly(config, field_type, available) ==
    IF FirstAvailable(FallbackOrder(config, available), available) # None
    THEN FirstAvailable(FallbackOrder(config, available), available)
    ELSE IF available # <<>> THEN available[1] ELSE None

\* ModelSelector.select_model_for_field_type
select_model_for_field_type(config, field_type, available) ==
    IF /\ field_type \in DOMAIN config.field_type_mapping
       /\ \E i \in 1..Len(available) : available[i] = config.field_type_mapping[field_type]
    THEN config.field_type_mapping[field_type]
    ELSE IF FirstAvailable(FallbackOrder(config, available), available) # None
    THEN FirstAvailable(FallbackOrder(config, available), available)
    ELSE IF available # <<>> THEN available[1] ELSE None

\* select_model_for_request(field_type); field_type is None when the caller
\* gives none
select_model_for_request(config, field_type, memory, installed) ==
    LET available == get_available_models(memory, installed)
        selected_name ==
            IF field_type # None
            THEN select_model_for_field_type(config, field_type, available)
            ELSE FirstAvailable(FallbackOrder(config, available), available)
    IN  IF available = <<>> THEN None
        ELSE IF \E i \in 1..Len(available) : available[i] = selected_name
        THEN selected_name
        ELSE available[1]

\* ProductionLLMServerV2.load_model: [ok, models, current_model_config].
\* outcome "test_failed": the self-test answers without choices and the
\* engine stays in the cache; "raised": Llama(...) or the self-test raises.
prod_load_model(name, outcome) ==
    IF name \in models
    THEN [ok |-> TRUE, models |-> models, current_model_config |-> name]
    ELSE IF outcome = "ok"
    THEN [ok |-> TRUE, models |-> models \cup {name}, current_model_config |-> name]
    ELSE IF outcome = "test_failed"
    THEN [ok |-> FALSE, models |-> models \cup {name},
          current_model_config |-> current_model_config]
    ELSE [ok |-> FALSE, models |-> models, current_model_config |-> current_model_config]

Min(a, b) == IF a < b THEN a ELSE b

Max(a, b) == IF a > b THEN a ELSE b

\* Mutation of AnswerConfidence: a mismatch gets the confidence of a match.
AnswerConfidence_SameForMismatch(name, match) ==
    LET confidence == 85
    IN  IF name \in {"phi3-mini", "gemma-2b"} THEN Min(95, confidence + 10)
        ELSE IF name = "tinyllama" THEN Max(10, confidence - 10)
        ELSE confidence

\* The confidence /validate derives from the answer and the model
AnswerConfidence(name, match) ==
    LET confidence == IF match THEN 85 ELSE 15
    IN  IF name \in {"phi3-mini", "gemma-2b"} THEN Min(95, confidence + 10)
        ELSE IF name = "tinyllama" THEN Max(10, confidence - 10)
        ELSE confidence

\* ---- select_model_for_request on its own ----
\* The file at each model's path: a valid artifact, a 10-byte file without
\* the GGUF header, or no file.
ArtifactKinds == {"a.gguf", "tiny.gguf", "missing.gguf"}

Disks == [{"tinyllama", "qwen-1.8b", "gemma-2b", "phi3-mini"} -> ArtifactKinds]

SelectMemoryLevels == {10, 22, 27, 30, 80}

SelectFieldTypes == {None, "name", "number", "text"}

\* Path(model.path).exists() for each supported model
OnDisk(disk) == {name \in DOMAIN disk : ModelFile(disk[name]).exists}

NoSelection ==
    [made |-> FALSE, config |-> NoModelSelector, field_type |-> None, memory |-> 0,
     disk |-> [name \in {"tinyllama", "qwen-1.8b", "gemma-2b", "phi3-mini"} |->
                  "missing.gguf"],
     result |-> None]

InitSelect == selection = NoSelection

\* A request handler calls select_model_for_request(field_type).
SelectModelForRequest ==
    /\ ~selection.made
    /\ \E config \in Configs, field_type \in SelectFieldTypes,
          memory \in SelectMemoryLevels, disk \in Disks :
          selection' = [made |-> TRUE, config |-> config, field_type |-> field_type,
                        memory |-> memory, disk |-> disk,
                        result |-> select_model_for_request(config, field_type, memory,
                                                            OnDisk(disk))]
    /\ UNCHANGED OtherThanSelect

NextSelect == SelectModelForRequest

\* Mutation of ShouldStore: every decision is stored.
ShouldStore_Always(confidence) == TRUE

\* "if confidence >= 0.7:" before store_decision
ShouldStore(confidence) == confidence >= PersistFloor

\* Mutation of CacheHitResult: the decision found is written to the store
\* again before the response.
CacheHitResult_StoresAgain(same, similar_decision) ==
    [same EXCEPT !.response =
                     ProdResponse(200, similar_decision.match, similar_decision.confidence,
                                  TRUE, "cache"),
                 !.validation_decisions = Append(@, similar_decision)]

\* "if similar_decision:" the response comes from the decision found and
\* the handler returns.
CacheHitResult(same, similar_decision) ==
    [same EXCEPT !.response =
                     ProdResponse(200, similar_decision.match, similar_decision.confidence,
                                  TRUE, "cache")]

\* The handler of POST /validate:
\* [response, models, current_model_config, validation_decisions]
validate(body, memory, installed, load_outcome, completion) ==
    LET same == [response |-> NoProdResponse, models |-> models,
                 current_model_config |-> current_model_config,
                 validation_decisions |-> validation_decisions]
        similar_decision == find_similar_decision(validation_decisions, body.csv_value,
                                                  body.web_value, body.field_type)
        name == select_model_for_request(model_selector, body.field_type, memory,
                                         installed)
        loaded == prod_load_model(name, load_outcome)
        after_load == [same EXCEPT !.models = loaded.models,
                                   !.current_model_config = loaded.current_model_config]
        match == completion \in MatchWords
        confidence == AnswerConfidence(name, match)
        decision == [id |-> prod_request_count + 1, timestamp |-> prod_request_count + 1,
                     csv_value |-> body.csv_value,
                     web_value |-> body.web_value, field_type |-> body.field_type,
                     hash_key |-> HashKey(body.csv_value, body.web_value, body.field_type),
                     match |-> match, confidence |-> confidence, model_used |-> name]
    IN  IF body.kind = "empty"
        THEN [same EXCEPT !.response = ProdResponse(400, FALSE, 0, FALSE, None)]
        ELSE IF similar_decision # NoDecision
        THEN CacheHitResult(same, similar_decision)
        ELSE IF name = None
        THEN [same EXCEPT !.response = ProdResponse(503, FALSE, 0, FALSE, None)]
        ELSE IF ~loaded.ok
        THEN [after_load EXCEPT !.response = ProdResponse(503, FALSE, 0, FALSE, None)]
        ELSE IF completion = "raised"
        THEN [after_load EXCEPT !.response = ProdResponse(500, FALSE, 0, FALSE, None)]
        ELSE IF completion = "nochoices"
        THEN [after_load EXCEPT !.response = ProdResponse(500, FALSE, 0, FALSE, name)]
        ELSE [after_load EXCEPT
                 !.response = ProdResponse(200, match, confidence, FALSE, name),
                 !.validation_decisions =
                     IF ShouldStore(confidence)
                     THEN store_decision(validation_decisions, decision)
                     ELSE validation_decisions]

\* ProductionLLMServerV2.__init__: the ModelSelector loads its configuration.
ProdStart ==
    /\ ~model_selector.constructed
    /\ model_selector' \in Configs
    /\ UNCHANGED <<models, current_model_config, prod_request_count,
                   validation_decisions, prod_request, prod_response, prod_previous>>
    /\ UNCHANGED OtherThanProd

\* A client posts to /validate and the handler runs to its response.
ProdValidate ==
    /\ model_selector.constructed
    /\ prod_request_count < MaxProdRequests
    /\ \E body \in RequestBodies, env \in Environments, engine \in EngineOutcomes :
          LET out == validate(body, env[1], env[2], engine[1], engine[2])
          IN  /\ prod_request' = body
              /\ prod_response' = out.response
              /\ models' = out.models
              /\ current_model_config' = out.current_model_config
              /\ validation_decisions' = out.validation_decisions
              /\ prod_previous' = IF body = prod_request THEN prod_response
                                                          ELSE NoProdResponse
    /\ prod_request_count' = prod_request_count + 1
    /\ UNCHANGED model_selector
    /\ UNCHANGED OtherThanProd

NextProd == ProdStart \/ ProdValidate

\* ---- find_similar_decision on its own ----
\* Bounds of SpecFind.
MaxRows == 3             \* rows in the table the lookup runs on
MaxTimestamp == 2        \* the latest timestamp a row carries

\* The values the stored rows and the lookup carry: two with the same
\* lower-cased form and one with another.
FindValues == {<<"j">>, <<"J">>, <<"j", "j">>}

FindConfidences == {85, 95}

\* The row store_decision writes for a decision with these fields
StoredRow(id, timestamp, csv_value, confidence) ==
    [id |-> id, timestamp |-> timestamp, csv_value |-> csv_value, web_value |-> <<"j">>,
     field_type |-> "name", hash_key |-> HashKey(csv_value, <<"j">>, "name"),
     match |-> TRUE, confidence |-> confidence, model_used |-> "gemma-2b"]

\* The tables of n rows; the primary key of a row is its position.
Tables(n) ==
    {[i \in 1..n |-> StoredRow(i, f[i][1], f[i][2], f[i][3])] :
        f \in [1..n -> (1..MaxTimestamp) \X FindValues \X FindConfidences]}

NoLookup == [made |-> FALSE, table |-> <<>>, csv_value |-> <<>>, result |-> NoDecision]

InitFind == lookup = NoLookup

\* A request handler calls find_similar_decision(csv_value, "j", "name").
FindSimilarDecision ==
    /\ ~lookup.made
    /\ \E n \in 0..MaxRows :
          \E table \in Tables(n), csv_value \in FindValues :
             \E row \in FindResults(table, csv_value, <<"j">>, "name") :
                lookup' = [made |-> TRUE, table |-> table, csv_value |-> csv_value,
                           result |-> row]
    /\ UNCHANGED OtherThanFind

NextFind == FindSimilarDecision

\* ---- concurrent /validate requests and the decision store ----
\* Bounds of SpecStore.
MaxStoreRequests == 3    \* /validate requests in a run
MaxStoreTicks == 1       \* seconds that pass in a run

StoreThreads == {"r1", "r2"}

\* What selection, loading and inference come to in one request: an error
\* response, or the model used and its answer.
InferenceOutcomes ==
    {[error |-> TRUE, model_used |-> None, match |-> FALSE],
     [error |-> FALSE, model_used |-> "gemma-2b", match |-> TRUE],
     [error |-> FALSE, model_used |-> "qwen-1.8b", match |-> TRUE],
     [error |-> FALSE, model_used |-> "qwen-1.8b", match |-> FALSE]}

\* f"{self.request_count}_{int(time.time())}": one id per pair
DecisionId(count, seconds) == count * (MaxStoreTicks + 2) + seconds

NoLocal == [csv_value |-> <<>>, count_read |-> 0, outcome |-> None, decision |-> NoDecision]

InitStore ==
    /\ store_rows = <<>>
    /\ store_request_count = 0
    /\ store_clock = 0
    /\ store_pc = [t \in StoreThreads |-> "idle"]
    /\ store_local = [t \in StoreThreads |-> NoLocal]
    /\ store_calls = 0
    /\ store_started = 0

\* A second passes.
StoreTick ==
    /\ store_clock < MaxStoreTicks
    /\ store_clock' = store_clock + 1
    /\ UNCHANGED <<store_rows, store_request_count, store_pc, store_local, store_calls,
                   store_started>>
    /\ UNCHANGED OtherThanStore

\* A request arrives; "self.request_count += 1" reads the counter.
ValidateEnter(t) ==
    /\ store_pc[t] = "idle"
    /\ store_started < MaxStoreRequests
    /\ store_started' = store_started + 1
    /\ \E csv_value \in {<<"j">>, <<"j", "j">>} :
          store_local' = [store_local EXCEPT ![t] =
                             [NoLocal EXCEPT !.csv_value = csv_value,
                                             !.count_read = store_request_count]]
    /\ store_pc' = [store_pc EXCEPT ![t] = "count"]
    /\ UNCHANGED <<store_rows, store_request_count, store_clock, store_calls>>
    /\ UNCHANGED OtherThanStore

\* "self.request_count += 1" writes the counter.
ValidateCount(t) ==
    /\ store_pc[t] = "count"
    /\ store_request_count' = store_local[t].count_read + 1
    /\ store_pc' = [store_pc EXCEPT ![t] = "lookup"]
    /\ UNCHANGED <<store_rows, store_clock, store_local, store_calls, store_started>>
    /\ UNCHANGED OtherThanStore

\* find_similar_decision: a hit responds from the cache.
ValidateLookup(t) ==
    /\ store_pc[t] = "lookup"
    /\ \E row \in FindResults(store_rows, store_local[t].csv_value, <<"j">>, "name") :
          IF row # NoDecision
          THEN /\ store_pc' = [store_pc EXCEPT ![t] = "idle"]
               /\ store_local' = [store_local EXCEPT ![t] = NoLocal]
          ELSE /\ store_pc' = [store_pc EXCEPT ![t] = "infer"]
               /\ UNCHANGED store_local
    /\ UNCHANGED <<store_rows, store_request_count, store_clock, store_calls,
                   store_started>>
    /\ UNCHANGED OtherThanStore

\* Selection, loading and create_completion, then the ValidationDecision is
\* built from the answer, the counter and the clock as they are now.
ValidateInfer(t) ==
    /\ store_pc[t] = "infer"
    /\ \E outcome \in InferenceOutcomes :
          IF outcome.error
          THEN /\ store_pc' = [store_pc EXCEPT ![t] = "idle"]
               /\ store_local' = [store_local EXCEPT ![t] = NoLocal]
          ELSE /\ store_pc' = [store_pc EXCEPT ![t] = "store"]
               /\ store_local' =
                     [store_local EXCEPT
                        ![t].outcome = outcome.model_used,
                        ![t].decision =
                            [StoredRow(DecisionId(store_request_count, store_clock),
                                       store_clock, store_local[t].csv_value,
                                       AnswerConfidence(outcome.model_used, outcome.match))
                             EXCEPT !.match = outcome.match,
                                    !.model_used = outcome.model_used]]
    /\ UNCHANGED <<store_rows, store_request_count, store_clock, store_calls,
                   store_started>>
    /\ UNCHANGED OtherThanStore

\* "if confidence >= 0.7: store_decision(decision)", then the response.
\* busy: the INSERT raises (the database is locked) and store_decision logs it.
ValidateStore(t) ==
    /\ store_pc[t] = "store"
    /\ \E busy \in BOOLEAN :
          IF ShouldStore(store_local[t].decision.confidence) /\ ~busy
          THEN /\ store_rows' = store_decision(store_rows, store_local[t].decision)
               /\ store_calls' = store_calls + 1
          ELSE UNCHANGED <<store_rows, store_calls>>
    /\ store_pc' = [store_pc EXCEPT ![t] = "idle"]
    /\ store_local' = [store_local EXCEPT ![t] = NoLocal]
    /\ UNCHANGED <<store_request_count, store_clock, store_started>>
    /\ UNCHANGED OtherThanStore

NextStore ==
    \/ StoreTick
    \/ \E t \in StoreThreads :
          \/ ValidateEnter(t) \/ ValidateCount(t) \/ ValidateLookup(t)
          \/ ValidateInfer(t) \/ ValidateStore(t)

vars == <<varsHealth, varsSafe, varsLlama, varsProd, varsSelect, varsFind, varsStore,
          varsIntegrity, varsClassify>>

(***************************************************************************)
(* Properties of ServerHealth                                              *)
(***************************************************************************)
Status == get_health_status(now).status

LastRequest == history[Len(history)]

\* Only failures have been recorded and trigger_recovery was never called directly.
OnlyFailuresSoFar ==
    /\ \A i \in 1..Len(history) : ~history[i].success
    /\ trigger_calls = auto_triggers

\* C4: from a fresh monitor, in a run of failed requests with no success in
\* between, trigger_recovery is not invoked during the first 4 failures and
\* has been invoked exactly once when the 5th failure has been recorded.
C4_RecoveryOnFifthFailure ==
    OnlyFailuresSoFar =>
        /\ Len(history) < 5 => auto_triggers = 0
        /\ Len(history) = 5 => auto_triggers = 1

C4_Witness ==
    /\ OnlyFailuresSoFar
    /\ Len(history) = 5
    /\ auto_triggers = 1
    /\ recovery_attempts = 1

\* C5 (as claimed): right after a failure that triggers automatic recovery the
\* status is 'degraded', and the status leaves 'degraded' only by a step that
\* records a successful request.
C5_DegradedAfterFifthFailure ==
    [][ /\ (auto_triggers' = auto_triggers + 1) => Status' = "degraded"
        /\ (Status = "degraded" /\ Status' # "degraded") =>
               /\ Len(history') = Len(history) + 1
               /\ LastRequest'.success ]_vars

\* C5 (amended): right after a failure that triggers automatic recovery the
\* status is 'degraded' only when the recovery attempts were already
\* exhausted; when the recovery is performed the counter is 0 and the status
\* is 'warning' or 'recovering'.  The status leaves 'degraded' only by a step
\* that resets the consecutive-error counter to 0: a recorded success or a
\* performed recovery.
C5_StatusAfterFifthFailure ==
    [][ /\ (auto_triggers' = auto_triggers + 1) =>
               IF recovery_attempts < 3
               THEN consecutive_errors' = 0 /\ Status' \in {"warning", "recovering"}
               ELSE Status' = "degraded"
        /\ (Status = "degraded" /\ Status' # "degraded") =>
               /\ consecutive_errors' = 0
               /\ \/ Len(history') = Len(history) + 1 /\ LastRequest'.success
                  \/ recovery_attempts' = recovery_attempts + 1 ]_vars

C5_Witness ==
    /\ OnlyFailuresSoFar
    /\ Len(history) = 5
    /\ auto_triggers = 1
    /\ consecutive_errors = 0
    /\ Status = "warning"

\* The records of the request window newer than now minus 5 minutes.
WindowIdx == {i \in 1..Len(recent_requests) : recent_requests[i].timestamp > now - 300}

WindowFailures == {i \in WindowIdx : ~recent_requests[i].success}

RateAboveTenth == WindowIdx # {} /\ 10 * Cardinality(WindowFailures) > Cardinality(WindowIdx)

\* C6: the status is 'degraded' if consecutive_errors >= 3; otherwise
\* 'warning' if the 5-minute error rate is strictly above 0.1; otherwise
\* 'recovering' if recovery_attempts > 0; otherwise 'healthy'.  The rate is 0
\* when no request record is newer than now minus 5 minutes.
C6_StatusDerivation ==
    /\ Status = CASE consecutive_errors >= 3 -> "degraded"
                  [] consecutive_errors < 3 /\ RateAboveTenth -> "warning"
                  [] consecutive_errors < 3 /\ ~RateAboveTenth /\ recovery_attempts > 0
                        -> "recovering"
                  [] OTHER -> "healthy"
    /\ WindowIdx = {} => get_health_status(now).error_rate_5min[1] = 0
    /\ WindowIdx # {} =>
           get_health_status(now).error_rate_5min =
               <<Cardinality(WindowFailures), Cardinality(WindowIdx)>>

C6_Witness ==
    /\ recovery_attempts > 0
    /\ consecutive_errors < 3
    /\ RateAboveTenth
    /\ Status = "warning"

\* C7: recovery_attempts never exceeds 3.  A trigger_recovery call made while
\* recovery_attempts < 3 adds one to recovery_attempts, resets
\* consecutive_errors to 0 and returns True; with recovery_attempts = 3 it
\* returns False and changes no counter, and the record_request that made the
\* call still completes (the request is in the window, the failure counted).
C7_BoundedRecovery ==
    /\ [](recovery_attempts <= 3)
    /\ [][ (trigger_calls' = trigger_calls + 1) =>
             IF recovery_attempts < 3
             THEN /\ recovery_attempts' = recovery_attempts + 1
                  /\ consecutive_errors' = 0
                  /\ last_recovery_ret' = TRUE
             ELSE /\ recovery_attempts' = recovery_attempts
                  /\ last_recovery_ret' = FALSE
                  /\ IF auto_triggers' = auto_triggers + 1
                     THEN /\ consecutive_errors' = consecutive_errors + 1
                          /\ Len(history') = Len(history) + 1
                          /\ recent_requests'[Len(recent_requests')] = LastRequest'
                          /\ last_heartbeat' = now'
                     ELSE consecutive_errors' = consecutive_errors ]_vars

C7_Witness ==
    /\ recovery_attempts = 3
    /\ last_recovery_ret = FALSE
    /\ consecutive_errors >= 5
    /\ ~LastRequest.success

\* C34: between calls, consecutive_errors >= 5 implies recovery_attempts = 3:
\* while recovery attempts remain, the failure that brings the counter to the
\* threshold resets it.
C34_ThresholdOnlyWhenExhausted ==
    consecutive_errors >= max_consecutive_errors => recovery_attempts = max_recovery_attempts

\* The counter has gone past the threshold after the recoveries were used
\* up, two of them by failures that reached the threshold.
C34_Witness ==
    /\ consecutive_errors = 5
    /\ recovery_attempts = 3
    /\ auto_triggers >= 2

\* C35: recovery_attempts never decreases, and once it is positive
\* get_health_status never reports 'healthy'.
C35_NeverHealthyAfterRecovery ==
    /\ [][recovery_attempts' >= recovery_attempts]_vars
    /\ [](recovery_attempts > 0 => Status # "healthy")

\* After a recovery the failures have left the 5-minute window, a success
\* was recorded, and the status is 'recovering'.
C35_Witness ==
    /\ recovery_attempts > 0
    /\ auto_triggers > 0
    /\ LastRequest.success
    /\ ~RateAboveTenth
    /\ Status = "recovering"

\* The last n elements of s, or all of s when it is shorter.
LastN(s, n) == SubSeq(s, IF Len(s) > n THEN Len(s) - n + 1 ELSE 1, Len(s))

\* C8: the request window holds at most 100 records and the error window at
\* most 50, each being the most recent records of its kind in arrival order;
\* after 150 requests the request window holds requests 51..150.
C8_SlidingWindows ==
    /\ Len(recent_requests) <= 100
    /\ Len(recent_errors) <= 50
    /\ recent_requests = LastN(history, 100)
    /\ recent_errors = LastN(error_history, 50)
    /\ Len(history) = 150 => recent_requests = SubSeq(history, 51, 150)

C8_Witness ==
    /\ Len(history) = 150
    /\ Len(recent_requests) = 100
    /\ recent_requests[1] = history[51]
    /\ Len(error_history) > 50
    /\ Len(recent_errors) = 50
    /\ recent_errors[1] = error_history[Len(error_history) - 49]



(***************************************************************************)
(* Properties of SafeLlamaServer and of the routes of create_app_safe      *)
(***************************************************************************)
\* The continuations of the calls thread t has in progress.
Frames(t) == {stack[t][i] : i \in 1..Len(stack[t])}

\* Thread t is inside the "with self._lock:" block of load_model.
InLoadModel(t) ==
    \/ pc[t] \in {"lm_check", "lm_join", "lm_verified", "lm_except", "lm_unloaded",
                  "lm_unloaded_except", "lm_retried"}
    \/ Frames(t) \cap {"lm_verified", "lm_unloaded", "lm_unloaded_except", "lm_retried"} # {}

\* Thread t is inside the "with self._lock:" block of generate.
InGenerate(t) ==
    \/ pc[t] \in {"gen_check", "gen_verified", "gen_call"}
    \/ "gen_verified" \in Frames(t)

\* C1: load_model and generate hold the server's lock for their whole body,
\* so at most one thread is inside the body of a load_model or generate call
\* at any time; a second call stays before its body until the first has left.
C1_LoadAndGenerateExclusive ==
    /\ \A t \in SafeThreads : (InLoadModel(t) \/ InGenerate(t)) => lock = t
    /\ \A t1, t2 \in SafeThreads :
          (t1 # t2) => ~((InLoadModel(t1) \/ InGenerate(t1)) /\ (InLoadModel(t2) \/ InGenerate(t2)))

C1_Witness ==
    \E t1, t2 \in SafeThreads :
        /\ t1 # t2
        /\ pc[t1] = "gen_call"
        /\ pc[t2] \in {"lm_acquire", "gen_acquire"}

\* C2: a load_model call always gets to return: it never waits for the
\* server's lock while it is itself the owner of that lock.
C2_LoadModelNeverWaitsOnOwnLock ==
    \A t \in SafeThreads :
        pc[t] \in {"lm_acquire", "um_acquire", "gen_acquire"} => lock # t

\* C9: a /validate request that has produced its response has called
\* record_request exactly once.
C9_ValidateRecordsRequestOnce ==
    \A t \in SafeThreads :
        (pc[t] = "responded" /\ resp[t].route = "/validate") =>
            resp[t].record_request_calls = 1

(***************************************************************************)
(* Properties of LlamaServer.load_model                                    *)
(***************************************************************************)
\* The call did not find a working model already loaded, and none of its
\* attempts produced one.
AllAttemptsFailed ==
    /\ ~already_working
    /\ \A i \in 1..Len(attempts) : attempts[i] # "ok"

\* C3: load_model(path, 0, max_retries) on an existing artifact, all of whose
\* attempts fail, has invoked Llama(...) exactly max_retries times when it
\* returns, and it returns False; no call invokes Llama(...) more than
\* max_retries times, and every call returns True or False.
C3_RetriesExhausted ==
    /\ construct_calls <= ls_args.max_retries
    /\ construct_calls = Len(attempts)
    /\ ls_pc = "returned" => ls_result \in {"True", "False"}
    /\ (ls_pc = "returned" /\ ModelFile(ls_args.model_path).exists /\ AllAttemptsFailed) =>
           /\ construct_calls = ls_args.max_retries
           /\ ls_result = "False"

C3_Witness ==
    /\ ls_pc = "returned"
    /\ ModelFile(ls_args.model_path).exists
    /\ AllAttemptsFailed
    /\ ls_args.max_retries = 3
    /\ construct_calls = 3
    /\ attempts = <<"raised", "verify_failed", "raised">>
    /\ sleeps = <<2, 4>>
    /\ ls_result = "False"

(***************************************************************************)
(* Properties of the production /validate                                  *)
(***************************************************************************)
\* C10: when a /validate request was answered by inference with a confidence
\* of at least 0.7 (so that its decision was stored), the next request with
\* the same csv_value, web_value and field_type is answered from the cache
\* with the same match and confidence.
C10_IdempotentCacheLookup ==
    [][ ( /\ prod_request_count' = prod_request_count + 1
          /\ prod_response.code = 200
          /\ ~prod_response.from_cache
          /\ prod_response.confidence >= PersistFloor
          /\ prod_request' = prod_request )
        => /\ prod_response'.from_cache
           /\ prod_response'.match = prod_response.match
           /\ prod_response'.confidence = prod_response.confidence ]_vars

\* What a case- and whitespace-insensitive key would depend on.
Normalize(str) == Strip(Lower(str))

SameNormalizedTriple(a, b) ==
    /\ Normalize(a.csv_value) = Normalize(b.csv_value)
    /\ Normalize(a.web_value) = Normalize(b.web_value)
    /\ a.field_type = b.field_type

\* C11: the hash key ignores letter case and leading and trailing
\* whitespace of the two values: stored decisions whose triples are equal up
\* to case and surrounding whitespace carry the same key, and the key
\* find_similar_decision computes for such a request is the key of the row.
C11_KeyIgnoresCaseAndWhitespace ==
    /\ \A i, j \in 1..Len(validation_decisions) :
          SameNormalizedTriple(validation_decisions[i], validation_decisions[j]) =>
              validation_decisions[i].hash_key = validation_decisions[j].hash_key
    /\ \A i \in 1..Len(validation_decisions) :
          (prod_request.kind = "json"
           /\ SameNormalizedTriple(prod_request, validation_decisions[i])) =>
              HashKey(prod_request.csv_value, prod_request.web_value,
                      prod_request.field_type) = validation_decisions[i].hash_key

\* C12: no stored decision has a confidence below the persist floor 0.7, and
\* the repeat of a request that was classified below the floor is not
\* answered from the cache.
C12_LowConfidenceNeverCached ==
    /\ \A i \in 1..Len(validation_decisions) :
          validation_decisions[i].confidence >= PersistFloor
    /\ (/\ prod_previous.code = 200
        /\ ~prod_previous.from_cache
        /\ prod_previous.confidence < PersistFloor) => ~prod_response.from_cache

C12_Witness ==
    /\ prod_request_count = 2
    /\ prod_previous.code = 200
    /\ ~prod_previous.from_cache
    /\ prod_previous.confidence < PersistFloor
    /\ prod_response.code = 200
    /\ ~prod_response.from_cache
    /\ validation_decisions = <<>>

\* C19: the production server holds at most one loaded engine at a time.
C19_AtMostOneEngine == Cardinality(models) <= 1

(***************************************************************************)
(* Properties of select_model_for_request                                  *)
(***************************************************************************)
\* The memory requirement of a supported model.
MemoryRequirement(name) ==
    LET i == CHOOSE i \in 1..Len(SUPPORTED_MODELS) : SUPPORTED_MODELS[i].name = name
    IN  SUPPORTED_MODELS[i].memory_requirement

SupportedNames == {SUPPORTED_MODELS[i].name : i \in 1..Len(SUPPORTED_MODELS)}

\* The descriptors that fit in (available memory - margin) and whose
\* artifact passes the integrity checker, for the last call.
PassingFilter ==
    {name \in SupportedNames :
        /\ MemoryRequirement(name) <= selection.memory - memory_threshold
        /\ check_model_integrity(selection.disk[name])}

\* The descriptors that fit and whose file exists, for the last call.
FitsAndOnDisk ==
    {name \in SupportedNames :
        /\ MemoryRequirement(name) <= selection.memory - memory_threshold
        /\ ModelFile(selection.disk[name]).exists}

\* C13: select_model_for_request never returns a descriptor that exceeds
\* (available memory - margin) or whose artifact fails the integrity
\* checker, and it returns None exactly when no descriptor passes both.
C13_SelectionPassesFilter ==
    selection.made =>
        /\ selection.result # None => selection.result \in PassingFilter
        /\ selection.result = None <=> PassingFilter = {}

\* C14: with no field type, selection returns the most capable descriptor
\* that fits (the last of the filtered set); with 2.2 GB available and all
\* four artifacts on disk it returns the 2.0 GB descriptor.
C14_NoFieldTypeSelectsLargestFitting ==
    (selection.made /\ selection.field_type = None) =>
        /\ \A name \in FitsAndOnDisk :
              MemoryRequirement(name) <= MemoryRequirement(selection.result)
        /\ (selection.memory = 22 /\ FitsAndOnDisk = PassingFilter
            /\ \A name \in SupportedNames : ModelFile(selection.disk[name]).exists) =>
               selection.result = "qwen-1.8b"

\* C15: when the mapping names a descriptor for the requested field type and
\* that descriptor fits and is on disk, it is returned whatever else fits;
\* otherwise the result is the first name of the fallback order that fits
\* and is on disk, when there is one.
MappedName ==
    IF selection.field_type \in DOMAIN selection.config.field_type_mapping
    THEN selection.config.field_type_mapping[selection.field_type]
    ELSE None

C15_FieldTypeAffinityOverride ==
    (selection.made /\ selection.field_type # None) =>
        IF MappedName \in FitsAndOnDisk
        THEN selection.result = MappedName
        ELSE \A i \in 1..Len(selection.config.fallback_order) :
                (/\ selection.config.fallback_order[i] \in FitsAndOnDisk
                 /\ \A j \in 1..(i - 1) :
                       selection.config.fallback_order[j] \notin FitsAndOnDisk)
                => selection.result = selection.config.fallback_order[i]

C15_Witness ==
    /\ selection.made
    /\ selection.field_type = "name"
    /\ MappedName = "gemma-2b"
    /\ selection.result = "gemma-2b"
    /\ "phi3-mini" \in FitsAndOnDisk
    /\ selection.config.fallback_order[1] = "phi3-mini"

\* C17: when the artifact fails an integrity check (missing, below the size
\* floor, or bad header), LlamaServer.load_model does not retry: the call
\* sleeps no backoff delay and makes no load attempt after a first one.
C17_IntegrityFailureNotRetried ==
    (ls_args.model_path # None /\ ~check_model_integrity(ls_args.model_path)) =>
        /\ sleeps = <<>>
        /\ construct_calls <= 1

\* Thread t is executing a call on the native engine: the probe of
\* verify_model_integrity or the generation of generate.
OnEngine(t) == pc[t] \in {"vi_end", "gen_call"}

\* C36: the native engine is never invoked by two threads at once: no probe
\* runs while a generation or another probe is running on the engine.
C36_EngineCallsExclusive ==
    \A t1, t2 \in SafeThreads : (t1 # t2 /\ OnEngine(t1)) => ~OnEngine(t2)

\* Thread t is back from the load_model call of its handler.
LoadModelReturned(t) ==
    \/ pc[t] = "done" /\ arg[t].op = "load_model"
    \/ pc[t] = "rt_loaded"

\* shutdown() has been called and no shutdown() call is still in progress:
\* a shutdown() call has returned.
ShutdownReturned ==
    /\ shutdown_flag
    /\ \A t \in SafeThreads :
          arg[t].op = "shutdown" => pc[t] \notin {"um_acquire", "um_body"}

\* Thread t is inside generate.
InGenerateCall(t) ==
    \/ pc[t] \in {"gen_acquire", "gen_check", "gen_verified", "gen_call"}
    \/ "gen_verified" \in Frames(t)

\* C38: once shutdown() has returned, model_loaded is False in every state,
\* every load_model call that returns returns False, no load thread is
\* started, and every generate call that ends raises.
C38_ShutdownIsFinal ==
    /\ [](ShutdownReturned => ~model_loaded)
    /\ [][ShutdownReturned =>
            /\ workers' = workers
            /\ \A t \in SafeThreads :
                  /\ (~LoadModelReturned(t) /\ LoadModelReturned(t)') => retv'[t] = "False"
                  /\ (InGenerateCall(t) /\ ~InGenerateCall(t)') =>
                         retv'[t] = "RuntimeError"]_vars

\* After shutdown() returned, a load_model call for a valid artifact has
\* returned False although a model had been loaded before the shutdown.
C38_Witness ==
    /\ ShutdownReturned
    /\ \E w \in 1..Len(workers) : workers[w].state = "done"
    /\ llm = NoEngine
    /\ \E t \in SafeThreads :
          /\ LoadModelReturned(t)
          /\ check_model_integrity(arg[t].path)
          /\ arg[t].worker = 0
          /\ retv[t] = "False"

\* C16: a load_model call for an artifact that is missing, below the size
\* floor or without the GGUF header returns False, and no load thread has
\* been started for that artifact.
C16_IntegrityGate ==
    \A t \in SafeThreads :
        (LoadModelReturned(t) /\ ~check_model_integrity(arg[t].path)) =>
            /\ retv[t] = "False"
            /\ \A w \in 1..Len(workers) : workers[w].path # arg[t].path

\* C18: in every state, model_loaded implies that the engine reference is
\* set and that this engine has passed at least one integrity probe.
C18_LoadedImpliesProbedEngine ==
    model_loaded => (llm # NoEngine /\ llm.probed)

\* C20: a load_model call made while a model is loaded returns True only if
\* an integrity self-test passed during that call (it also passes one when
\* it loads the model itself).
C20_SuccessOnlyAfterSelfTest ==
    \A t \in SafeThreads :
        (LoadModelReturned(t) /\ retv[t] = "True") => arg[t].self_test_passed

\* C21: a load_model(B) call returns True only if, at its return, the active
\* engine is one built from artifact B; it does not return True while an
\* engine built from another artifact is the active one.
C21_SuccessMeansRequestedEngine ==
    [][\A t \in SafeThreads :
          (~LoadModelReturned(t) /\ LoadModelReturned(t)' /\ retv'[t] = "True") =>
              llm'.path = arg'[t].path]_vars

\* The load attempt of worker w has timed out: its owner has left
\* load_thread.join(timeout=60) while the thread was still constructing.
Abandoned(w) ==
    /\ workers[w].state = "running"
    /\ pc[workers[w].owner] # "lm_join"

\* C23: a load thread whose attempt has timed out never installs its engine:
\* no step makes the engine of an abandoned attempt the server's engine.
C23_TimedOutAttemptLeavesNoEngine ==
    [][\A w \in 1..Len(workers) : Abandoned(w) => llm'.id # w]_vars

\* The attempt of the load_model call thread t is in has failed by timeout or
\* because Llama(...) raised in the load thread.
AttemptFailed(t) ==
    /\ arg[t].worker \in 1..Len(workers)
    /\ workers[arg[t].worker].state \in {"failed", "running"}
    /\ pc[t] # "lm_join"
    /\ InLoadModel(t)

\* C24: after an attempt failed by timeout or by a construction failure, the
\* call is on its way to "return False" without a further attempt only when
\* max_retries attempts have been made.
C24_FailedAttemptIsRetried ==
    \A t \in SafeThreads :
        (AttemptFailed(t) /\ (pc[t] = "lm_unloaded" \/ "lm_unloaded" \in Frames(t))) =>
            arg[t].retry_count >= arg[t].max_retries - 1

\* C25: a call of unload_model returns in whatever state it is made: it never
\* waits for the lock while the owner of the lock is itself waiting for it.
C25_UnloadAlwaysReturns ==
    \A t \in SafeThreads :
        (pc[t] = "um_acquire" /\ arg[t].op = "unload_model") =>
            ~(lock \in SafeThreads /\ pc[lock] = "um_acquire")

\* C26: when the probe generate makes before generating fails, the handle is
\* destroyed before generate raises: model_loaded is False and the engine
\* reference is released.
C26_FailedProbeDestroysHandle ==
    [][\A t \in SafeThreads :
          (pc[t] = "gen_verified" /\ retv[t] = "False" /\ pc'[t] # "gen_verified") =>
              (~model_loaded' /\ llm' = NoEngine)]_vars

\* C27: every /validate response with an error status carries match = false
\* and confidence = 0.0.
C27_ErrorResponsesCarryDefaults ==
    \A t \in SafeThreads :
        (resp[t].route = "/validate" /\ resp[t].code >= 400) =>
            (resp[t].has_match /\ ~resp[t].match /\ resp[t].confidence = 0)

\* C22: a /validate request that ends in a load failure leaves no new engine
\* in the loaded-model cache: an engine whose self-test failed is discarded,
\* so no later load_model finds it "already loaded".
C22_FailedSelfTestDiscardsEngine ==
    [][(prod_request_count' = prod_request_count + 1 /\ prod_response'.code = 503) =>
          models' \subseteq models]_vars

Qualifying ==
    {i \in 1..Len(lookup.table) :
        /\ Lower(lookup.table[i].csv_value) = Lower(lookup.csv_value)
        /\ Lower(lookup.table[i].web_value) = Lower(<<"j">>)
        /\ lookup.table[i].field_type = "name"
        /\ lookup.table[i].confidence >= similarity_threshold}

\* C29: find_similar_decision returns None exactly when no stored decision
\* with the key meets the threshold; otherwise it returns one of those
\* decisions, and none of them has a later timestamp.
C29_NewestQualifyingDecision ==
    lookup.made =>
        IF Qualifying = {}
        THEN lookup.result = NoDecision
        ELSE /\ \E i \in Qualifying : lookup.result = lookup.table[i]
             /\ \A i \in Qualifying : lookup.table[i].timestamp <= lookup.result.timestamp

\* Two decisions with the key meet the threshold, the older one was written
\* last, a third is below the threshold, and the lookup returned a decision.
C29_Witness ==
    /\ lookup.made
    /\ lookup.result # NoDecision
    /\ \E i, j \in Qualifying :
          /\ i < j
          /\ lookup.table[i].timestamp > lookup.table[j].timestamp
    /\ \E k \in 1..Len(lookup.table) :
          /\ k \notin Qualifying
          /\ lookup.table[k].hash_key = lookup.result.hash_key

\* C30: the decision store is append-only under concurrent requests: the
\* number of stored rows equals the number of store_decision calls that
\* succeeded.
C30_StoreIsAppendOnly == Len(store_rows) = store_calls

\* C31: in a load_model call the wait after the k-th failed attempt is
\* k * 2 seconds; a wait follows every failed attempt but the max_retries-th,
\* after which the call returns at once, so a call whose max_retries
\* attempts all fail has waited max_retries - 1 times.
C31_LinearBackoff ==
    /\ \A k \in 1..Len(sleeps) : sleeps[k] = k * 2
    /\ Len(sleeps) <= Len(attempts)
    /\ (ls_pc \in {"lm_entry", "lm_try"} /\ AllAttemptsFailed) => Len(sleeps) = Len(attempts)
    /\ (ls_pc = "returned" /\ AllAttemptsFailed /\ Len(attempts) = ls_args.max_retries
        /\ ls_args.max_retries >= 1) =>
           /\ Len(sleeps) = ls_args.max_retries - 1
           /\ ls_args.retry_count = ls_args.max_retries - 1

\* A call with max_retries = 3 whose self-test failed three times has
\* returned after waiting 2 and then 4 seconds.
C31_Witness ==
    /\ ls_pc = "returned"
    /\ ls_args.max_retries = 3
    /\ attempts = <<"verify_failed", "verify_failed", "verify_failed">>
    /\ sleeps = <<2, 4>>

\* C37: every stored decision has match = true, and every response that
\* comes from the cache reports match = true.
C37_OnlyMatchesPersisted ==
    /\ \A i \in 1..Len(validation_decisions) : validation_decisions[i].match
    /\ prod_response.from_cache => prod_response.match

\* The decision of the first request was stored and the second request was
\* answered from it.
C37_Witness ==
    /\ prod_request_count = 2
    /\ prod_response.from_cache
    /\ prod_response.match
    /\ Len(validation_decisions) = 1
    /\ validation_decisions[1].id = 1

(***************************************************************************)
(* SafeLlamaServer._check_model_integrity on its own                       *)
(***************************************************************************)
\* The sizes and the first bytes a file may have.
FileSizes == {0, 10, MinModelBytes - 1, MinModelBytes, 1073741824}

FileHeaders ==
    {<<>>, <<"G", "G", "U">>, GGUF, <<"G", "G", "U", "F", "v", "3">>,
     <<"G", "G", "M", "L">>, <<"g", "g", "u", "f">>}

Files ==
    {NoFile} \cup {[exists |-> TRUE, size |-> size, header |-> header] :
                      size \in FileSizes, header \in FileHeaders}

\* The fields of the server the check runs on: nothing loaded, or a model
\* loaded, after some generations.
IntegrityServers ==
    {[llm |-> llm_, model_loaded |-> llm_ # NoEngine, request_count |-> n] :
        llm_ \in {NoEngine, [id |-> 1, path |-> "a.gguf", probed |-> TRUE]},
        n \in 0..1}

\* self._check_model_integrity(model_path): the server after the call, the
\* value returned and the rejection logged.
check_model_integrity_call(self, f, io) ==
    LET verdict == IntegrityVerdictOf(f, io)
    IN  [self |-> self, ret |-> verdict = "ok", log |-> verdict]

NoIntegrityCheck ==
    [made |-> FALSE, self_before |-> CHOOSE x \in IntegrityServers : ~x.model_loaded /\ x.request_count = 0,
     file |-> NoFile, io |-> "none",
     self_after |-> CHOOSE x \in IntegrityServers : ~x.model_loaded /\ x.request_count = 0,
     ret |-> FALSE, log |-> None]

InitIntegrity == integrity_check = NoIntegrityCheck

CheckModelIntegrity ==
    /\ ~integrity_check.made
    /\ \E self \in IntegrityServers, f \in Files, io \in IoOutcomes :
          LET r == check_model_integrity_call(self, f, io)
          IN  integrity_check' =
                  [made |-> TRUE, self_before |-> self, file |-> f, io |-> io,
                   self_after |-> r.self, ret |-> r.ret, log |-> r.log]
    /\ UNCHANGED OtherThanIntegrity

NextIntegrity == CheckModelIntegrity

\* C32: _check_model_integrity rejects at the first check that fails, in the
\* order path missing, size below the floor, bad magic header: a missing path
\* is reported as not found whatever else holds, a file below the floor as too
\* small whatever its header, and only a file of sufficient size is reported
\* as badly formatted; the call returns True exactly when no check rejected,
\* and the fields of the server are after the call what they were before it.
C32_ChecksInOrderWithoutEffect ==
    integrity_check.made =>
        LET f == integrity_check.file
            undisturbed == integrity_check.io = "none"
        IN  /\ ~f.exists => integrity_check.log = "NotFound"
            /\ (f.exists /\ undisturbed /\ f.size < MinModelBytes) =>
                   integrity_check.log = "TooSmall"
            /\ (f.exists /\ undisturbed /\ f.size >= MinModelBytes
                  /\ ~StartsWith(f.header, GGUF)) =>
                   integrity_check.log = "BadFormat"
            /\ (f.exists /\ undisturbed /\ f.size >= MinModelBytes
                  /\ StartsWith(f.header, GGUF)) =>
                   integrity_check.log = "ok"
            /\ integrity_check.log \in {"TooSmall", "BadFormat"} => f.exists
            /\ integrity_check.log = "BadFormat" => f.size >= MinModelBytes
            /\ integrity_check.ret = (integrity_check.log = "ok")
            /\ integrity_check.self_after = integrity_check.self_before

\* The check ran for a missing path on a server with a model loaded.
C32_Witness ==
    /\ integrity_check.made
    /\ ~integrity_check.file.exists
    /\ integrity_check.log = "NotFound"
    /\ ~integrity_check.ret
    /\ integrity_check.self_before.model_loaded
    /\ integrity_check.self_after.model_loaded

(***************************************************************************)
(* The classification of an answer in ProductionLLMServerV2's /validate    *)
(***************************************************************************)
\* Bound of SpecClassify.
MaxFragments == 2        \* fragments an answer text is put together from

LowerCase == <<"a", "e", "g", "i", "l", "m", "n", "o", "r", "s", "t", "u", "y">>
UpperCase == <<"A", "E", "G", "I", "L", "M", "N", "O", "R", "S", "T", "U", "Y">>

\* str.upper()
Upper(str) ==
    [i \in 1..Len(str) |->
        IF \E k \in 1..Len(LowerCase) : LowerCase[k] = str[i]
        THEN UpperCase[CHOOSE k \in 1..Len(LowerCase) : LowerCase[k] = str[i]]
        ELSE str[i]]

\* ['YES', 'SIM', 'TRUE', 'IGUAL']
MatchKeywords ==
    << <<"Y", "E", "S">>, <<"S", "I", "M">>, <<"T", "R", "U", "E">>,
       <<"I", "G", "U", "A", "L">> >>

\* Mutation of AnswerMatches: the answer has to be one of the words.
AnswerMatches_WholeAnswer(answer) ==
    \E k \in 1..Len(MatchKeywords) : MatchKeywords[k] = answer

\* any(word in answer for word in [...])
AnswerMatches(answer) ==
    \E k \in 1..Len(MatchKeywords) : IsSubstring(MatchKeywords[k], answer)

\* The classification of the text of the first choice by the model `name`.
classify(text, name) ==
    LET answer == Upper(Strip(text))
        match == AnswerMatches(answer)
    IN  [answer |-> answer, match |-> match,
         confidence |-> AnswerConfidence(name, match)]

\* The texts an engine may answer with: up to MaxFragments fragments.
Fragments ==
    {<<"y", "e", "s">>, <<"S", "i", "m">>, <<"T", "R", "U", "E">>,
     <<"i", "g", "u", "a", "l">>, <<"n", "o">>, <<"N", "A", "O">>,
     <<"y", "e">>, <<"s">>, <<" ">>, <<"t", "r", "u">>}

RECURSIVE Texts(_)
Texts(n) ==
    IF n = 0 THEN {<<>>}
    ELSE Texts(n - 1) \cup {t \o f : t \in Texts(n - 1), f \in Fragments}

NoClassification ==
    [made |-> FALSE, text |-> <<>>, name |-> None, answer |-> <<>>,
     match |-> FALSE, confidence |-> 0]

InitClassify == classification = NoClassification

Classify ==
    /\ ~classification.made
    /\ \E text \in Texts(MaxFragments), name \in SupportedNames :
          LET r == classify(text, name)
          IN  classification' =
                  [made |-> TRUE, text |-> text, name |-> name, answer |-> r.answer,
                   match |-> r.match, confidence |-> r.confidence]
    /\ UNCHANGED OtherThanClassify

NextClassify == Classify

\* C33: the classification is a function of the answer text and the model
\* name: match holds exactly when the upper-cased text contains YES, SIM, TRUE
\* or IGUAL somewhere; the confidence (in hundredths) is 85 for a match and 15
\* otherwise, plus 10 but at most 95 for phi3-mini and gemma-2b, minus 10 but at
\* least 10 for tinyllama, unchanged for the other models; it lies in 0..100.
C33_ClassificationRuleTable ==
    classification.made =>
        LET u == Upper(classification.text)
            occurs(w) ==
                \E i \in 1..Len(u) :
                    /\ i + Len(w) - 1 <= Len(u)
                    /\ \A k \in 1..Len(w) : u[i + k - 1] = w[k]
            contains ==
                \/ occurs(<<"Y", "E", "S">>) \/ occurs(<<"S", "I", "M">>)
                \/ occurs(<<"T", "R", "U", "E">>) \/ occurs(<<"I", "G", "U", "A", "L">>)
            base == IF contains THEN 85 ELSE 15
            name == classification.name
        IN  /\ classification.match = contains
            /\ name \in {"phi3-mini", "gemma-2b"} =>
                   classification.confidence = (IF base + 10 > 95 THEN 95 ELSE base + 10)
            /\ name = "tinyllama" =>
                   classification.confidence = (IF base - 10 < 10 THEN 10 ELSE base - 10)
            /\ name \notin {"phi3-mini", "gemma-2b", "tinyllama"} =>
                   classification.confidence = base
            /\ classification.confidence >= 0
            /\ classification.confidence <= 100

\* tinyllama answered with a lower-case keyword inside a longer text.
C33_Witness ==
    /\ classification.made
    /\ classification.text = <<"y", "e", "s", "n", "o">>
    /\ classification.answer = <<"Y", "E", "S", "N", "O">>
    /\ classification.name = "tinyllama"
    /\ classification.match
    /\ classification.confidence = 75

Init ==
    /\ InitHealth /\ InitSafe /\ InitLlama /\ InitProd /\ InitSelect
    /\ InitFind /\ InitStore /\ InitIntegrity /\ InitClassify

NextHealth == RecordRequest \/ TriggerRecovery \/ Tick
SpecHealth == Init /\ [][NextHealth]_vars

NextHealthLong == RecordRequestLong
SpecHealthLong == Init /\ [][NextHealthLong]_vars

SpecSafe == Init /\ [][NextSafe]_vars

SpecLlama == Init /\ [][NextLlama]_vars

SpecProd == Init /\ [][NextProd]_vars

SpecSelect == Init /\ [][NextSelect]_vars

SpecFind == Init /\ [][NextFind]_vars

SpecStore == Init /\ [][NextStore]_vars

SpecIntegrity == Init /\ [][NextIntegrity]_vars

SpecClassify == Init /\ [][NextClassify]_vars

====
